---- MODULE Spec2Model ----
(***************************************************************************)
(* Lease Drop - Crude Oil inquiry: the table extractor                     *)
(* (lease_drop_core.process_lease_data) and the surfaces that call it      *)
(* (rest_api.retrieve_data, lease_drop_wrapper.retrieve_data,              *)
(* ignition_integration.retrieve_lease_data).                              *)
(*                                                                         *)
(* Texts (column names, cell texts, messages) are TLA+ strings; substring  *)
(* tests, upper-casing, splitting, stripping and numeric parsing are       *)
(* computed character by character.  Numbers are integers; a float is a    *)
(* fraction [num, den] that is never reduced.                              *)
(***************************************************************************)
EXTENDS Integers, Sequences, FiniteSets, TLC

VARIABLES request, form, html_content, fetch_error, fetch_calls, pc, result, response, db,
          fault, save_calls, connections,
          trend_call, analysis, session

vars == <<request, form, html_content, fetch_error, fetch_calls, pc, result, response, db,
          fault, save_calls, connections,
          trend_call, analysis, session>>

-----------------------------------------------------------------------------
(* Bounds of the checked input space                                       *)

MaxCols == 3
MaxProfileRows == 2
MaxRows == 3
MaxMarkerRows == 4
MaxSeriesLen == 3
MaxAnalyses == 2

-----------------------------------------------------------------------------
(* Text primitives (Python str)                                            *)

LowerAlpha == "abcdefghijklmnopqrstuvwxyz"
UpperAlpha == "ABCDEFGHIJKLMNOPQRSTUVWXYZ"
Digits == "0123456789"
\* the characters of the checked texts, in code-point order
Ascii == " #'-./0123456789:<ABCDEFGHIJKLMNOPQRSTUVWXYZabcdefghijklmnopqrstuvwxyz"

CharAt(s, i) == SubSeq(s, i, i)

Chars(alphabet) == {CharAt(alphabet, i) : i \in 1..Len(alphabet)}

IndexIn(alphabet, c) == CHOOSE i \in 1..Len(alphabet) : CharAt(alphabet, i) = c

\* ord(c): the rank of the character in code-point order
OrdTable == [c \in Chars(Ascii) |-> IndexIn(Ascii, c)]
Ord(c) == OrdTable[c]

UpperTable ==
    [c \in Chars(Ascii) |->
        IF c \in Chars(LowerAlpha) THEN CharAt(UpperAlpha, IndexIn(LowerAlpha, c)) ELSE c]
UpperChar(c) == UpperTable[c]

DigitTable == [c \in Chars(Digits) |-> IndexIn(Digits, c) - 1]
IsDigit(c) == c \in Chars(Digits)

RECURSIVE Upper(_)
\* str.upper()
Upper(s) == IF s = "" THEN "" ELSE UpperChar(CharAt(s, 1)) \o Upper(Tail(s))

\* w in s
Contains(s, w) ==
    \E i \in 1..(Len(s) - Len(w) + 1) : SubSeq(s, i, i + Len(w) - 1) = w

\* s.find(w) + 1, and 0 when w does not occur
Find(s, w) ==
    IF Contains(s, w)
    THEN CHOOSE i \in 1..(Len(s) - Len(w) + 1) :
            /\ SubSeq(s, i, i + Len(w) - 1) = w
            /\ \A j \in 1..(i - 1) : SubSeq(s, j, j + Len(w) - 1) # w
    ELSE 0

\* s.split(w)[1], for s that contains w
SplitSecond(s, w) ==
    LET rest == SubSeq(s, Find(s, w) + Len(w), Len(s))
    IN  IF Contains(rest, w) THEN SubSeq(rest, 1, Find(rest, w) - 1) ELSE rest

RECURSIVE LStrip(_)
LStrip(s) == IF s # "" /\ CharAt(s, 1) = " " THEN LStrip(Tail(s)) ELSE s

RECURSIVE RStrip(_)
RStrip(s) ==
    IF s # "" /\ CharAt(s, Len(s)) = " " THEN RStrip(SubSeq(s, 1, Len(s) - 1)) ELSE s

\* str.strip()
Strip(s) == RStrip(LStrip(s))

RECURSIVE StrLess(_, _)
\* a < b on str: lexicographic by code point
StrLess(a, b) ==
    IF b = "" THEN FALSE
    ELSE IF a = "" THEN TRUE
    ELSE IF CharAt(a, 1) = CharAt(b, 1) THEN StrLess(Tail(a), Tail(b))
    ELSE Ord(CharAt(a, 1)) < Ord(CharAt(b, 1))

IsDigits(s) == s # "" /\ \A i \in 1..Len(s) : IsDigit(CharAt(s, i))

RECURSIVE DigitsValue(_)
DigitsValue(s) ==
    IF s = "" THEN 0
    ELSE 10 * DigitsValue(SubSeq(s, 1, Len(s) - 1)) + DigitTable[CharAt(s, Len(s))]

\* the text is an integer literal (surrounding blanks allowed)
IsNumericText(s) ==
    LET t == Strip(s)
    IN  \/ IsDigits(t)
        \/ t # "" /\ CharAt(t, 1) = "-" /\ IsDigits(Tail(t))

NumericValue(s) ==
    LET t == Strip(s)
    IN  IF CharAt(t, 1) = "-" THEN 0 - DigitsValue(Tail(t)) ELSE DigitsValue(t)

-----------------------------------------------------------------------------
(* Python / pandas values: None, NaN, numbers (fractions n/d), strings      *)

None == [k |-> "none", n |-> 0, d |-> 1, s |-> ""]
NaN == [k |-> "nan", n |-> 0, d |-> 1, s |-> ""]
Frac(a, b) == [k |-> "num", n |-> a, d |-> b, s |-> ""]
Num(a) == Frac(a, 1)
Str(t) == [k |-> "str", n |-> 0, d |-> 1, s |-> t]

\* pandas isna(): None and NaN are both missing values
IsNull(v) == v.k \in {"none", "nan"}

\* bool(v) for the values a column label can be
Truthy(v) ==
    CASE v.k = "none" -> FALSE
      [] v.k = "num" -> v.n # 0
      [] v.k = "str" -> v.s # ""
      [] OTHER -> TRUE

RECURSIVE NatToStr(_)
NatToStr(a) ==
    IF a < 10 THEN CharAt(Digits, a + 1)
    ELSE NatToStr(a \div 10) \o CharAt(Digits, (a % 10) + 1)

\* str(v)
PyStr(v) ==
    CASE v.k = "none" -> "None"
      [] v.k = "nan" -> "nan"
      [] v.k = "str" -> v.s
      [] OTHER -> IF v.n < 0 THEN "-" \o NatToStr(0 - v.n) ELSE NatToStr(v.n)

\* a < b and a > b on numbers with positive denominators
NumLess(a, b) == a.n * b.d < b.n * a.d

-----------------------------------------------------------------------------
(* Sequences                                                               *)

RECURSIVE SeqSum(_)
SeqSum(q) == IF q = <<>> THEN 0 ELSE Head(q) + SeqSum(Tail(q))

RECURSIVE InsertInt(_, _)
InsertInt(q, x) ==
    IF q = <<>> THEN <<x>>
    ELSE IF x < Head(q) THEN <<x>> \o q
    ELSE <<Head(q)>> \o InsertInt(Tail(q), x)

RECURSIVE SortInts(_)
\* ascending order of a sequence of integers
SortInts(q) ==
    IF q = <<>> THEN <<>> ELSE InsertInt(SortInts(SubSeq(q, 1, Len(q) - 1)), q[Len(q)])

-----------------------------------------------------------------------------
(* pandas: DataFrame = [columns: labels, data: rows of cells]              *)

\* the cells of one column parsed by read_html: numbers when every non-empty
\* text of the column is numeric, texts otherwise; an empty text is NaN
ParseCell(text, numeric) ==
    IF text = "" THEN NaN
    ELSE IF numeric THEN Num(NumericValue(text))
    ELSE Str(text)

ColumnIsNumeric(body, j) ==
    \A i \in 1..Len(body) : body[i][j] = "" \/ IsNumericText(body[i][j])

\* one <table> as a DataFrame; a table without header cells gets the
\* integer labels 0..n-1
ParseTable(t) ==
    LET numeric == [j \in 1..t.ncols |-> ColumnIsNumeric(t.body, j)]
    IN  [columns |-> [j \in 1..t.ncols |->
                        IF t.header = <<>> THEN Num(j - 1) ELSE Str(t.header[j])],
         data |-> [i \in 1..Len(t.body) |->
                     [j \in 1..t.ncols |-> ParseCell(t.body[i][j], numeric[j])]]]

\* pd.read_html on a document that holds tables
read_html(doc) == [i \in 1..Len(doc.tables) |-> ParseTable(doc.tables[i])]

HasColumn(df, col) == \E j \in 1..Len(df.columns) : df.columns[j] = col

ColumnIndex(df, col) == CHOOSE j \in 1..Len(df.columns) : df.columns[j] = col

\* df[col]
Column(df, col) == [i \in 1..Len(df.data) |-> df.data[i][ColumnIndex(df, col)]]

\* df[col] = series
SetColumn(df, col, series) ==
    IF HasColumn(df, col)
    THEN [df EXCEPT !.data = [i \in 1..Len(df.data) |->
                                [df.data[i] EXCEPT ![ColumnIndex(df, col)] = series[i]]]]
    ELSE [columns |-> Append(df.columns, col),
          data |-> [i \in 1..Len(df.data) |-> Append(df.data[i], series[i])]]

\* pd.to_numeric(series, errors='coerce') on one cell
CoerceCell(v) ==
    CASE v.k = "num" -> v
      [] v.k = "str" -> IF IsNumericText(v.s) THEN Num(NumericValue(v.s)) ELSE NaN
      [] OTHER -> NaN

to_numeric(series) == [i \in 1..Len(series) |-> CoerceCell(series[i])]

NotNull(v) == ~IsNull(v)

\* the non-null values of a numeric series, as integers
Values(series) ==
    LET kept == SelectSeq(series, NotNull) IN [i \in 1..Len(kept) |-> kept[i].n]

\* Series.count(), Series.sum(): missing values are skipped
Count(series) == Len(Values(series))
Sum(series) == SeqSum(Values(series))

-----------------------------------------------------------------------------
(* lease_drop_core.process_lease_data: the production column               *)

\* the name compared as written, without .upper()
UpperNameCaseSensitive(col) == PyStr(col)

\* str(col).upper()
UpperName(col) == Upper(PyStr(col))

IsCrudeOil(col) ==
    LET name == UpperName(col) IN Contains(name, "CRUDE") /\ Contains(name, "OIL")

IsGrossBarrels(col) ==
    LET name == UpperName(col) IN Contains(name, "GROSS") /\ Contains(name, "BARRELS")

IsBarrels(col) ==
    LET name == UpperName(col) IN Contains(name, "BARRELS") \/ Contains(name, "BBL")

\* the last-resort test: numeric_col.sum() > 0 and
\* numeric_col.count() > len(tables[0]) * 0.5
IsNumericProduction(df, col) ==
    LET numeric_col == to_numeric(Column(df, col))
    IN  Sum(numeric_col) > 0 /\ 2 * Count(numeric_col) > Len(df.data)

\* for col in columns: if <test>: production_col = col; break
FirstColumn(df, matching) ==
    IF matching = {} THEN None
    ELSE df.columns[CHOOSE j \in matching : \A m \in matching : j <= m]

CrudeOilColumns(df) == {j \in 1..Len(df.columns) : IsCrudeOil(df.columns[j])}
GrossBarrelsColumns(df) == {j \in 1..Len(df.columns) : IsGrossBarrels(df.columns[j])}
BarrelsColumns(df) == {j \in 1..Len(df.columns) : IsBarrels(df.columns[j])}
NumericColumns(df) == {j \in 1..Len(df.columns) : IsNumericProduction(df, df.columns[j])}

\* the BARRELS/BBL loop placed before the GROSS BARRELS loop
find_production_col_barrels_first(df) ==
    LET by_crude_oil == FirstColumn(df, CrudeOilColumns(df))
        by_barrels ==
            IF by_crude_oil = None THEN FirstColumn(df, BarrelsColumns(df))
            ELSE by_crude_oil
        by_gross_barrels ==
            IF by_barrels = None THEN FirstColumn(df, GrossBarrelsColumns(df))
            ELSE by_barrels
    IN  IF by_gross_barrels = None THEN FirstColumn(df, NumericColumns(df))
        ELSE by_gross_barrels

\* the four loops over tables[0].columns, each entered only while
\* production_col is None
find_production_col(df) ==
    LET by_crude_oil == FirstColumn(df, CrudeOilColumns(df))
        by_gross_barrels ==
            IF by_crude_oil = None THEN FirstColumn(df, GrossBarrelsColumns(df))
            ELSE by_crude_oil
        by_barrels ==
            IF by_gross_barrels = None THEN FirstColumn(df, BarrelsColumns(df))
            ELSE by_gross_barrels
    IN  IF by_barrels = None THEN FirstColumn(df, NumericColumns(df)) ELSE by_barrels

-----------------------------------------------------------------------------
(* the summary statistics                                                  *)

SumOfSquares(q) == SeqSum([i \in 1..Len(q) |-> q[i] * q[i]])

Mean(q) == IF q = <<>> THEN NaN ELSE Frac(SeqSum(q), Len(q))

Median(q) ==
    LET sorted == SortInts(q)
        half == Len(q) \div 2
    IN  IF q = <<>> THEN NaN
        ELSE IF Len(q) % 2 = 1 THEN Num(sorted[half + 1])
        ELSE Frac(sorted[half] + sorted[half + 1], 2)

SeqMin(q) == IF q = <<>> THEN NaN ELSE Num(SortInts(q)[1])
SeqMax(q) == IF q = <<>> THEN NaN ELSE Num(SortInts(q)[Len(q)])

\* the square of Series.std(): the sample variance (N-1 denominator)
Variance(q) ==
    IF Len(q) < 2 THEN NaN
    ELSE Frac(Len(q) * SumOfSquares(q) - SeqSum(q) * SeqSum(q), Len(q) * (Len(q) - 1))

\* stats_df; 'Std Dev' is held as its square
make_stats_df(series) ==
    LET q == Values(series)
    IN  [k |-> "stats", Count |-> Num(Len(q)), Mean |-> Mean(q), Median |-> Median(q),
         Min |-> SeqMin(q), Max |-> SeqMax(q), StdDevSq |-> Variance(q)]

NoStats == [k |-> "none", Count |-> None, Mean |-> None, Median |-> None,
            Min |-> None, Max |-> None, StdDevSq |-> None]

-----------------------------------------------------------------------------
(* the period column                                                       *)

IsDateName(col) ==
    LET name == UpperName(col) IN Contains(name, "DATE") \/ Contains(name, "PERIOD")

DateColumns(df) == {j \in 1..Len(df.columns) : IsDateName(df.columns[j])}

PeriodLabel == Str("Period")
TaxpayerLabel == Str("Primary Taxpayer #")

RECURSIVE CarryPeriodsMarkerOnly(_, _)
\* the period written on the marker row only, not carried to the rows below
CarryPeriodsMarkerOnly(cells, current_period) ==
    IF cells = <<>> THEN <<>>
    ELSE LET primary_taxpayer == PyStr(Head(cells))
             period == IF Contains(primary_taxpayer, "Period:")
                       THEN Str(Strip(SplitSecond(primary_taxpayer, "Period:")))
                       ELSE None
         IN  <<IF Truthy(period) THEN period ELSE None>>
                 \o CarryPeriodsMarkerOnly(Tail(cells), None)

RECURSIVE CarryPeriods(_, _)
\* the loop over iterrows(): the value each row's Period cell is left with
CarryPeriods(cells, current_period) ==
    IF cells = <<>> THEN <<>>
    ELSE LET primary_taxpayer == PyStr(Head(cells))
             period == IF Contains(primary_taxpayer, "Period:")
                       THEN Str(Strip(SplitSecond(primary_taxpayer, "Period:")))
                       ELSE current_period
         IN  <<IF Truthy(period) THEN period ELSE None>>
                 \o CarryPeriods(Tail(cells), period)

\* df.dropna(subset=[col])
dropna(df, col) ==
    LET j == ColumnIndex(df, col)
        HasValue(row) == ~IsNull(row[j])
    IN  [df EXCEPT !.data = SelectSeq(df.data, HasValue)]

\* the order of sort_values on one key: missing values last
KeyLess(a, b) ==
    IF IsNull(a) THEN FALSE
    ELSE IF IsNull(b) THEN TRUE
    ELSE IF a.k = "num" THEN NumLess(a, b)
    ELSE StrLess(a.s, b.s)

RECURSIVE InsertRow(_, _, _)
InsertRow(rows, row, j) ==
    IF rows = <<>> THEN <<row>>
    ELSE IF KeyLess(row[j], Head(rows)[j]) THEN <<row>> \o rows
    ELSE <<Head(rows)>> \o InsertRow(Tail(rows), row, j)

RECURSIVE SortRows(_, _)
SortRows(rows, j) ==
    IF rows = <<>> THEN <<>>
    ELSE InsertRow(SortRows(SubSeq(rows, 1, Len(rows) - 1), j), rows[Len(rows)], j)

\* comparing a number with a str raises TypeError
Sortable(df, col) ==
    LET kinds == {Column(df, col)[i].k : i \in 1..Len(df.data)}
    IN  ~({"num", "str"} \subseteq kinds)

\* the rows left in document order
sort_values_keeps_order(df, col) == df

\* df.sort_values(by=col)
sort_values(df, col) == [df EXCEPT !.data = SortRows(df.data, ColumnIndex(df, col))]

\* df[df[col] >= 0]
non_negative_rows(df, col) ==
    LET j == ColumnIndex(df, col)
        NonNegative(row) == row[j].k = "num" /\ ~NumLess(row[j], Num(0))
    IN  [df EXCEPT !.data = SelectSeq(df.data, NonNegative)]

\* df[df[col] > 0]
positive_rows(df, col) ==
    LET j == ColumnIndex(df, col)
        Positive(row) == row[j].k = "num" /\ NumLess(Num(0), row[j])
    IN  [df EXCEPT !.data = SelectSeq(df.data, Positive)]

-----------------------------------------------------------------------------
(* process_lease_data                                                      *)

MsgNoTables == "No tables found in the HTML content"
MsgNoResults == "No tables found in the HTML. The query may have returned no results: "
MsgParseError == "Error parsing HTML table: "
MsgNoProductionColumn == "Could not identify crude oil production column for analysis"
MsgNoDateColumn == "Could not identify date column for analysis"
MsgNotEnoughNonZero ==
    "Not enough non-zero production values to calculate percentage change"
MsgNotEnoughData == "Not enough data points to analyze trend"
MsgTrendError == "Error analyzing production trend: "

NoFrame == [columns |-> <<>>, data |-> <<>>]

\* one return statement: the returned tuple, the line of the return and
\* the locals of the percentage computation; selected_col is the local
\* production_col as the four loops leave it (line 492)
Return(line, tables, production_col, date_col, stats_df, pct_change, error_message, non_zero_df, first_production, last_production) ==
    [line |-> line, selected_col |-> production_col,
     tables |-> tables, production_col |-> production_col,
     date_col |-> date_col, stats_df |-> stats_df, pct_change |-> pct_change,
     error_message |-> error_message, non_zero_df |-> non_zero_df,
     first_production |-> first_production, last_production |-> last_production]

\* every error returned like the no-table errors, with empty results
FailureWithoutResults(line, tables, production_col, date_col, stats_df, message) ==
    Return(line, <<>>, None, None, NoStats, None, Str(message), NoFrame, None, None)

Failure(line, tables, production_col, date_col, stats_df, message) ==
    Return(line, tables, production_col, date_col, stats_df, None, Str(message),
           NoFrame, None, None)

\* one remaining row is taken as enough
EnoughDataPointsFromOne(df) == Len(df.data) >= 1

\* line 547: len(tables[0]) >= 2
EnoughDataPoints(df) == Len(df.data) >= 2

\* one positive row is taken as enough
EnoughNonZeroFromOne(non_zero_df) == Len(non_zero_df.data) >= 1

\* line 555: len(non_zero_df) >= 2
EnoughNonZero(non_zero_df) == Len(non_zero_df.data) >= 2

\* lines 546-570: the 'lease drop' check on the cleaned first table
check_lease_drop(tables, df, production_col, date_col, stats_df) ==
    IF EnoughDataPoints(df)
    THEN IF ~Sortable(df, date_col)
         THEN Failure(568, [tables EXCEPT ![1] = df], production_col, date_col, stats_df,
                      MsgTrendError \o "'<' not supported")
         ELSE LET sorted == sort_values(df, date_col)
                  non_zero_df == positive_rows(sorted, production_col)
                  j == ColumnIndex(sorted, production_col)
                  first_production == non_zero_df.data[1][j]
                  last_production == non_zero_df.data[Len(non_zero_df.data)][j]
              IN  IF EnoughNonZero(non_zero_df)
                  THEN Return(562, [tables EXCEPT ![1] = sorted], production_col,
                              date_col, stats_df,
                              Frac((last_production.n - first_production.n) * 100,
                                   first_production.n),
                              None, non_zero_df, first_production, last_production)
                  ELSE Return(565, [tables EXCEPT ![1] = sorted], production_col,
                              date_col, stats_df, None, Str(MsgNotEnoughNonZero),
                              non_zero_df, None, None)
    ELSE Failure(570, [tables EXCEPT ![1] = df], production_col, date_col, stats_df,
                 MsgNotEnoughData)

\* lines 494-545: statistics and the period column, for a truthy production_col
analyze_production(tables, production_col) ==
    LET coerced == SetColumn(tables[1], production_col,
                             to_numeric(Column(tables[1], production_col)))
        stats_df == make_stats_df(Column(coerced, production_col))
        named == FirstColumn(coerced, DateColumns(coerced))
        blank == SetColumn(coerced, PeriodLabel, [i \in 1..Len(coerced.data) |-> None])
        marked == SetColumn(blank, PeriodLabel,
                            CarryPeriods(Column(blank, TaxpayerLabel), None))
    IN  IF named # None
        THEN check_lease_drop(tables, coerced, production_col, named, stats_df)
        ELSE IF HasColumn(blank, TaxpayerLabel)
        THEN check_lease_drop(tables, dropna(marked, production_col), production_col,
                              PeriodLabel, stats_df)
        ELSE Failure(544, [tables EXCEPT ![1] = blank], production_col, None, stats_df,
                     MsgNoDateColumn)

\* every exception of pd.read_html reported by the outer handler
process_lease_data_one_handler(doc) ==
    IF doc.kind \in {"malformed", "no_tables"}
    THEN Failure(580, <<>>, None, None, NoStats, MsgParseError \o doc.exception)
    ELSE LET tables == read_html(doc)
             production_col == find_production_col(tables[1])
         IN  IF Truthy(production_col)
             THEN analyze_production(tables, production_col)
             ELSE [Failure(572, tables, None, None, NoStats, MsgNoProductionColumn)
                      EXCEPT !.selected_col = production_col]

\* the document is [kind, tables, exception]: pd.read_html returns the
\* tables, raises ValueError("No tables found"), or raises another exception
process_lease_data(doc) ==
    IF doc.kind = "malformed"
    THEN Failure(580, <<>>, None, None, NoStats, MsgParseError \o doc.exception)
    ELSE IF doc.kind = "no_tables"
    THEN Failure(577, <<>>, None, None, NoStats, MsgNoResults \o doc.exception)
    ELSE LET tables == read_html(doc)
             production_col == find_production_col(tables[1])
         IN  IF Len(tables) = 0
             THEN Failure(574, <<>>, None, None, NoStats, MsgNoTables)
             ELSE IF Truthy(production_col)
             THEN analyze_production(tables, production_col)
             ELSE [Failure(572, tables, None, None, NoStats, MsgNoProductionColumn)
                      EXCEPT !.selected_col = production_col]

-----------------------------------------------------------------------------
(* The documents the portal can return                                     *)

ColumnNames ==
    {"Crude Oil Production", "crude oil value", "Gross Barrels", "Net BBL",
     "Volume", "Period"}

\* what a column holds: positive numbers, or texts and empty cells
Profiles == {"numeric", "text"}

ProfileText(profile, i) ==
    IF profile = "numeric" THEN NatToStr(2 + i)
    ELSE IF i % 2 = 1 THEN "n/a" ELSE ""

Table(header, ncols, body) == [header |-> header, ncols |-> ncols, body |-> body]

ProfileTable(header, ncols, profiles, nrows) ==
    Table(header, ncols,
          [i \in 1..nrows |-> [j \in 1..ncols |-> ProfileText(profiles[j], i)]])

InjectiveSeqs(S, n) ==
    {h \in [1..n -> S] : \A i, j \in 1..n : i # j => h[i] # h[j]}

\* tables with every order of up to MaxCols named columns
NamedTables ==
    UNION {{ProfileTable(h, n, p, r) :
               h \in InjectiveSeqs(ColumnNames, n), p \in [1..n -> Profiles],
               r \in {0, MaxProfileRows}} : n \in 1..MaxCols}

\* tables without header cells
HeaderlessTables ==
    UNION {{ProfileTable(<<>>, n, p, r) :
               p \in [1..n -> Profiles], r \in 1..MaxProfileRows} : n \in 1..MaxCols}

\* rows of a report: a period and the barrels produced in it
PeriodRows ==
    {<<"2201", "100">>, <<"2202", "50">>, <<"901", "100">>, <<"2201", "0">>,
     <<"2202", "0">>, <<"901", "0">>, <<"901", "-5">>, <<"2202", "n/a">>}

\* a report with an explicit period column
PeriodTables ==
    UNION {{Table(<<"Period", "Barrels">>, 2, body) :
               body \in [1..n -> PeriodRows]} : n \in 0..MaxRows}

\* rows of a report whose first column holds signed volumes
SignedRows ==
    {<<"-5", "2201">>, <<"3", "2202">>, <<"n/a", "2203">>, <<"0", "2204">>, <<"-3", "2205">>}

\* reports whose first column matches no name rule
SignedTables ==
    UNION {{Table(<<"Volume", second>>, 2, body) :
               second \in {"Period", "Note"}, body \in [1..n -> SignedRows]} : n \in 1..MaxRows}

MarkerRows ==
    {<<"Period: 1601", "">>, <<"Period: 1602", "">>, <<"Period: 901", "">>,
     <<"x", "200">>, <<"y", "180">>, <<"z", "0">>}

\* a report whose periods are 'Period: <value>' marker rows
MarkerTables ==
    UNION {{Table(<<"Primary Taxpayer #", "Barrels">>, 2, body) :
               body \in [1..n -> MarkerRows]} : n \in 0..MaxMarkerRows}

\* a later table of the same document
SecondTable ==
    Table(<<"Crude Oil Production", "Period">>, 2,
          <<(<<"100", "2201">>), (<<"50", "2202">>)>>)

Document(kind, tables, exception) ==
    [kind |-> kind, tables |-> tables, exception |-> exception]

Documents ==
    {Document("tables", <<t>>, "") :
        t \in NamedTables \cup HeaderlessTables \cup PeriodTables \cup MarkerTables
              \cup SignedTables}
    \cup {Document("tables", <<t, SecondTable>>, "") :
              t \in {nt \in NamedTables : Len(nt.body) = MaxProfileRows}}
    \cup {Document("no_tables", <<>>, "No tables found"),
          Document("malformed", <<>>, "no text parsed from document")}

\* the report of the first concrete scenario, and the documents without tables
SampleDocuments ==
    {Document("tables",
              <<Table(<<"Period", "Barrels">>, 2, <<(<<"2201", "100">>), (<<"2202", "50">>)>>)>>,
              ""),
     Document("no_tables", <<>>, "No tables found"),
     Document("malformed", <<>>, "no text parsed from document")}

NoDocument == Document("none", <<>>, "")

NoResult ==
    Return(0, <<>>, None, None, NoStats, None, None, NoFrame, None, None)

-----------------------------------------------------------------------------
(* lease_drop_core.access_lease_drop and save_to_database                  *)

FetchErrors ==
    {Str("Cookies are required and could not be enabled. Please try running the application again."),
     Str("Failed to reach Lease Drop - Crude Oil page after navigation attempts.")}

\* the other returns of an error: the form not found, an exception while
\* the form is filled, the cookie page after navigation, any other exception
FormErrors ==
    {Str("Error: Could not find form elements. Check element names/XPATH."),
     Str("An error occurred during form interaction: Message: stale element reference"),
     Str("Navigation failed, ended up on 'Cookies are required' page. Please try again later."),
     Str("General error during access attempt: Message: unknown error: net::ERR_NAME_NOT_RESOLVED")}

\* an exception that leaves access_lease_drop: the browser cannot be started
Exc(text) == [k |-> "exc", n |-> 0, d |-> 1, s |-> text]

FetchRaises ==
    {Exc("Message: Unable to obtain driver for chrome")}

\* the call of access_lease_drop raises and returns nothing
FetchRaised == fetch_error.k = "exc"

\* both members of the pair, whatever the session met
access_lease_drop_both == <<html_content, fetch_error>>

\* what the browser session returned: (html_content, None) or (None, error)
access_lease_drop ==
    IF fetch_error = None THEN <<html_content, None>> ELSE <<None, fetch_error>>

\* the arguments of one call of access_lease_drop
FetchCall(identifier_type, identifier_value, beg_period, end_period) ==
    [identifier_type |-> identifier_type, identifier_value |-> identifier_value,
     beg_period |-> beg_period, end_period |-> end_period]

\* DataFrame.to_dict(orient='records'): one mapping label -> cell per row
to_records(df) ==
    [i \in 1..Len(df.data) |->
        [col \in {df.columns[j] : j \in 1..Len(df.columns)} |->
            df.data[i][ColumnIndex(df, col)]]]

\* json.dumps(records): the row objects, their keys the column labels as
\* str, in column order
json_dumps(df) ==
    [keys |-> [j \in 1..Len(df.columns) |-> Str(PyStr(df.columns[j]))], rows |-> df.data]

EmptyDb == [lease_queries |-> <<>>, lease_data |-> <<>>, lease_statistics |-> <<>>]

\* the step of save_to_database at which the database or the serialisation
\* raises: an insert (with the json.dumps before it), the commit, or none
Faults == {"none", "lease_queries", "lease_data", "lease_statistics", "commit"}

\* a connection: the rows committed and the inserts of the open transaction
Connection(database) == [committed |-> database, pending |-> <<>>]

\* cursor.execute("INSERT INTO <table> ..."), inside the transaction
execute(conn, table, row) ==
    [conn EXCEPT !.pending = Append(@, [table |-> table, row |-> row])]

RECURSIVE Apply(_, _)
\* the rows of a transaction added to the tables
Apply(database, pending) ==
    IF pending = <<>> THEN database
    ELSE Apply([database EXCEPT ![Head(pending).table] = Append(@, Head(pending).row)],
               Tail(pending))

\* connection.commit()
commit(conn) == [committed |-> Apply(conn.committed, conn.pending), pending |-> <<>>]

\* a rollback that keeps what the transaction wrote
rollback_keeping_rows(conn) == commit(conn)

\* connection.rollback()
rollback(conn) == [conn EXCEPT !.pending = <<>>]

\* the inserts of one call, in order; tables = <<>> and stats_df = NoStats
\* stand for the omitted arguments
Inserts(database, query_info, tables, stats_df, pct_change) ==
    LET query_id == Len(database.lease_queries) + 1
    IN  <<[table |-> "lease_queries", row |-> query_info]>>
        \o (IF Len(tables) > 0
            THEN <<[table |-> "lease_data",
                    row |-> [query_id |-> query_id, data_json |-> json_dumps(tables[1]),
                             pct_change |-> pct_change]]>>
            ELSE <<>>)
        \o (IF stats_df # NoStats
            THEN <<[table |-> "lease_statistics",
                    row |-> [query_id |-> query_id, statistics_json |-> stats_df]]>>
            ELSE <<>>)

RECURSIVE ExecuteAll(_, _)
\* the inserts executed up to the one that raises
ExecuteAll(conn, inserts) ==
    IF inserts = <<>> \/ Head(inserts).table = fault THEN conn
    ELSE ExecuteAll(execute(conn, Head(inserts).table, Head(inserts).row), Tail(inserts))

\* lines 594-675: the try block with its commit, the except block with its
\* rollback; the connection afterwards and the value returned
run_save(database, inserts) ==
    LET raised == fault = "commit" \/ \E i \in 1..Len(inserts) : inserts[i].table = fault
        conn == ExecuteAll(Connection(database), inserts)
    IN  IF raised THEN [conn |-> rollback(conn), returned |-> FALSE]
        ELSE [conn |-> commit(conn), returned |-> TRUE]

\* the rows persisted after the call
save_to_database(database, query_info, tables, stats_df, pct_change) ==
    run_save(database, Inserts(database, query_info, tables, stats_df, pct_change)).conn.committed

\* one call of save_to_database: the database before it, its arguments and
\* the value it returned
SaveCall(database, query_info, tables, stats_df, pct_change) ==
    [before |-> database, status |-> query_info.status,
     dataset |-> Len(tables) > 0, statistics |-> stats_df # NoStats,
     returned |-> run_save(database,
                           Inserts(database, query_info, tables, stats_df, pct_change)).returned]

-----------------------------------------------------------------------------
(* The surfaces                                                            *)

RequiredFields == <<"identifier_type", "identifier_value", "beg_period", "end_period">>

IdentifierTypes == {"Lease Number", "Drilling Permit Number"}

MakeRequest(fields, identifier_type) ==
    [json |-> "object", fields |-> fields, identifier_type |-> identifier_type,
     identifier_value |-> "123456", beg_period |-> "2201", end_period |-> "2301"]

AllFields == {RequiredFields[i] : i \in 1..Len(RequiredFields)}

ValidRequests == {MakeRequest(AllFields, t) : t \in IdentifierTypes}

InvalidRequests ==
    {MakeRequest(AllFields \ {f}, "Lease Number") : f \in AllFields}
    \cup {MakeRequest(AllFields, "Well Number")}

\* a body that is the JSON value null, or no JSON at all: no field in it
BodylessRequests == {[MakeRequest({}, "Lease Number") EXCEPT !.json = j] : j \in {"null", "none"}}

\* every field present, the identifier value an empty string
EmptyIdentifierRequests ==
    {[MakeRequest(AllFields, t) EXCEPT !.identifier_value = ""] : t \in IdentifierTypes}

\* the call made for a request: access_lease_drop(identifier_type,
\* identifier_value, beg_period, end_period)
CallFor(req) ==
    FetchCall(req.identifier_type, req.identifier_value, req.beg_period, req.end_period)

QueryInfo(req, status, error_message) ==
    [identifier_type |-> req.identifier_type, identifier_value |-> req.identifier_value,
     beg_period |-> req.beg_period, end_period |-> req.end_period,
     status |-> status, error_message |-> error_message]

NoQueryInfo == [identifier_type |-> "", identifier_value |-> "", beg_period |-> "",
                end_period |-> "", status |-> "", error_message |-> None]

\* a JSON body: the keys it has and their values
Body(surface, code, keys, status, message, query_info, tables, production_column, date_column, statistics, percentage_change) ==
    [surface |-> surface, code |-> code, keys |-> keys, status |-> status,
     message |-> message, query_info |-> query_info, tables |-> tables,
     production_column |-> production_column, date_column |-> date_column,
     statistics |-> statistics, percentage_change |-> percentage_change]

ErrorBody(surface, code, message, keys, query_info) ==
    Body(surface, code, keys, "error", message, query_info, <<>>, None, None, NoStats, None)

RECURSIVE JoinLines(_)
\* the texts one after the other
JoinLines(texts) ==
    IF texts = <<>> THEN ""
    ELSE IF Len(texts) = 1 THEN texts[1]
    ELSE texts[1] \o " " \o JoinLines(Tail(texts))

MissingFields(req) == {i \in 1..Len(RequiredFields) : RequiredFields[i] \notin req.fields}

\* every failure answered with one and the same message
rest_respond_generic(req, database, error_message, processed) ==
    IF Truthy(error_message) \/ Truthy(processed.error_message)
    THEN [response |-> ErrorBody("rest_api", 400, Str("Error retrieving data"),
                                 {"status", "message", "query_info"},
                                 QueryInfo(req, "error", Str("Error retrieving data"))),
          db |-> save_to_database(database,
                                  QueryInfo(req, "error", Str("Error retrieving data")),
                                  <<>>, NoStats, None),
          saves |-> <<SaveCall(database,
                                     QueryInfo(req, "error", Str("Error retrieving data")),
                                     <<>>, NoStats, None)>>,
          calls |-> <<CallFor(req)>>]
    ELSE [response |->
              Body("rest_api", 200,
                   {"status", "query_info", "tables", "production_column",
                    "date_column", "statistics", "percentage_change"},
                   "success", None, QueryInfo(req, "success", None),
                   [i \in 1..Len(processed.tables) |-> to_records(processed.tables[i])],
                   processed.production_col, processed.date_col,
                   processed.stats_df, processed.pct_change),
          db |-> save_to_database(database, QueryInfo(req, "success", None),
                                  processed.tables, processed.stats_df,
                                  processed.pct_change),
          saves |-> <<SaveCall(database, QueryInfo(req, "success", None),
                                     processed.tables, processed.stats_df,
                                     processed.pct_change)>>,
          calls |-> <<CallFor(req)>>]

\* rest_api.retrieve_data, lines 109-167: the response and the database
\* once the page is fetched and processed
rest_respond(req, database, error_message, processed) ==
    IF Truthy(error_message)
    THEN [response |-> ErrorBody("rest_api", 400, error_message,
                                 {"status", "message", "query_info"},
                                 QueryInfo(req, "error", error_message)),
          db |-> save_to_database(database, QueryInfo(req, "error", error_message),
                                  <<>>, NoStats, None),
          saves |-> <<SaveCall(database, QueryInfo(req, "error", error_message),
                                     <<>>, NoStats, None)>>,
          calls |-> <<CallFor(req)>>]
    ELSE IF Truthy(processed.error_message)
    THEN [response |-> ErrorBody("rest_api", 400, processed.error_message,
                                 {"status", "message", "query_info"},
                                 QueryInfo(req, "error", processed.error_message)),
          db |-> save_to_database(database,
                                  QueryInfo(req, "error", processed.error_message),
                                  <<>>, NoStats, None),
          saves |-> <<SaveCall(database,
                                     QueryInfo(req, "error", processed.error_message),
                                     <<>>, NoStats, None)>>,
          calls |-> <<CallFor(req)>>]
    ELSE [response |->
              Body("rest_api", 200,
                   {"status", "query_info", "tables", "production_column",
                    "date_column", "statistics", "percentage_change"},
                   "success", None, QueryInfo(req, "success", None),
                   [i \in 1..Len(processed.tables) |-> to_records(processed.tables[i])],
                   processed.production_col, processed.date_col,
                   processed.stats_df, processed.pct_change),
          db |-> save_to_database(database, QueryInfo(req, "success", None),
                                  processed.tables, processed.stats_df,
                                  processed.pct_change),
          saves |-> <<SaveCall(database, QueryInfo(req, "success", None),
                                     processed.tables, processed.stats_df,
                                     processed.pct_change)>>,
          calls |-> <<CallFor(req)>>]

\* the except block of retrieve_data, lines 169-176: logger.error uses the
\* name traceback, which the module does not import, so the NameError leaves
\* the view and the server answers 500 without a JSON body
InternalServerError ==
    Body("rest_api", 500, {}, "", None, NoQueryInfo, <<>>, None, None, NoStats, None)

\* rest_api.retrieve_data, lines 64-167
rest_retrieve_data(req, database) ==
    IF req.json # "object"
    THEN [response |-> InternalServerError, db |-> database, saves |-> <<>>,
          calls |-> <<>>, conns |-> 0]
    ELSE IF MissingFields(req) # {}
    THEN [response |->
              ErrorBody("rest_api", 400,
                        Str("Missing required field: "
                            \o RequiredFields[CHOOSE i \in MissingFields(req) :
                                                 \A m \in MissingFields(req) : i <= m]),
                        {"status", "message"}, NoQueryInfo),
          db |-> database, saves |-> <<>>,
          calls |-> <<>>, conns |-> 0]
    ELSE IF req.identifier_type \notin IdentifierTypes
    THEN [response |-> ErrorBody("rest_api", 400,
              Str("Invalid identifier_type. Must be \"Lease Number\" or \"Drilling Permit Number\""),
              {"status", "message"}, NoQueryInfo),
          db |-> database, saves |-> <<>>,
          calls |-> <<>>, conns |-> 0]
    ELSE IF FetchRaised
    THEN [response |-> InternalServerError, db |-> database, saves |-> <<>>,
          calls |-> <<CallFor(req)>>, conns |-> 1]
    ELSE rest_respond(req, database, access_lease_drop[2],
                      process_lease_data(access_lease_drop[1]))
         @@ [conns |-> 1]

\* the statements after the call of access_lease_drop, for a call result
\* of three values (html_content, error_message, query_info)
respond_unpacked(surface, database, fetched, processed) ==
    IF Truthy(fetched[2])
    THEN [response |-> ErrorBody(surface, 0, fetched[2],
                                 {"status", "message", "query_info"}, fetched[3]),
          db |-> save_to_database(database, fetched[3], <<>>, NoStats, None),
          saves |-> <<SaveCall(database, fetched[3], <<>>, NoStats, None)>>]
    ELSE IF Truthy(processed.error_message)
    THEN [response |->
              ErrorBody(surface, 0, processed.error_message,
                        {"status", "message", "query_info"},
                        [fetched[3] EXCEPT !.status = "error",
                                           !.error_message = processed.error_message]),
          db |-> save_to_database(database,
                     [fetched[3] EXCEPT !.status = "error",
                                        !.error_message = processed.error_message],
                     <<>>, NoStats, None),
          saves |-> <<SaveCall(database,
                        [fetched[3] EXCEPT !.status = "error",
                                           !.error_message = processed.error_message],
                        <<>>, NoStats, None)>>]
    ELSE [response |->
              Body(surface, 0,
                   {"status", "data", "stats", "production_col", "date_col",
                    "pct_change", "query_info"},
                   "success", None, fetched[3],
                   <<to_records(processed.tables[1])>>,
                   processed.production_col, processed.date_col,
                   processed.stats_df, processed.pct_change),
          db |-> save_to_database(database, fetched[3], processed.tables,
                                  processed.stats_df, processed.pct_change),
          saves |-> <<SaveCall(database, fetched[3], processed.tables,
                                     processed.stats_df, processed.pct_change)>>]

\* lease_drop_wrapper.retrieve_data lines 71-135 and
\* ignition_integration.retrieve_lease_data lines 78-145: the same body;
\* the call result is unpacked into three names, which raises ValueError
\* for a result of another length
retrieve_unpacking_three(surface, database, fetched) ==
    IF FetchRaised
    THEN [response |-> ErrorBody(surface, 0,
              Str("Error retrieving lease data: " \o fetch_error.s),
              {"status", "message"}, NoQueryInfo),
          db |-> database, saves |-> <<>>]
    ELSE IF Len(fetched) # 3
    THEN [response |-> ErrorBody(surface, 0,
              Str("Error retrieving lease data: not enough values to unpack (expected 3, got 2)"),
              {"status", "message"}, NoQueryInfo),
          db |-> database, saves |-> <<>>]
    ELSE respond_unpacked(surface, database, fetched, process_lease_data(fetched[1]))

\* lease_drop_wrapper.retrieve_data, lines 57-135; the request's fields are
\* the command-line arguments
wrapper_retrieve_data(req, database) ==
    IF Cardinality(req.fields) < 4
    THEN [response |-> ErrorBody("wrapper", 0,
              Str("Not enough arguments. Expected: identifier_type identifier_value beg_period end_period"),
              {"status", "message"}, NoQueryInfo),
          db |-> database, saves |-> <<>>,
          calls |-> <<>>, conns |-> 0]
    ELSE retrieve_unpacking_three("wrapper", database, access_lease_drop)
         @@ [calls |-> <<CallFor(req)>>, conns |-> 1]

\* the text inputs of the Data Retrieval tab of app.py
Form(lease_num_input, drilling_permit_input, beg_period_input, end_period_input) ==
    [lease_num_input |-> lease_num_input, drilling_permit_input |-> drilling_permit_input,
     beg_period_input |-> beg_period_input, end_period_input |-> end_period_input]

EmptyForm == Form("", "", "", "")

Forms ==
    {Form(l, d, b, "2301") : l \in {"", "123456"}, d \in {"", "654321"}, b \in {"", "2201"}}

IdentifierMessage ==
    "Please provide either a Lease Number OR a Drilling Permit Number, not both or neither."

PeriodMessage == "Both Begin Period and End Period must be provided."

\* the texts st.error displays for the validation, in order
validation_errors(frm) ==
    (IF (frm.lease_num_input = "" /\ frm.drilling_permit_input = "")
        \/ (frm.lease_num_input # "" /\ frm.drilling_permit_input # "")
     THEN <<IdentifierMessage>> ELSE <<>>)
    \o (IF frm.beg_period_input = "" \/ frm.end_period_input = ""
        THEN <<PeriodMessage>> ELSE <<>>)

\* what the page shows: the texts of st.error, or the text of st.success
Shown(status, texts) ==
    Body("app", 0, {}, status, Str(JoinLines(texts)), NoQueryInfo, <<>>, None, None, NoStats, None)

\* app.py, the handler of the button "Get Lease Drop Data", lines 461-486:
\* the validation, the call of access_lease_drop and the message shown
app_submit(frm) ==
    IF validation_errors(frm) # <<>>
    THEN [response |-> Shown("error", validation_errors(frm)), calls |-> <<>>]
    ELSE LET identifier_type ==
                 IF frm.lease_num_input # "" THEN "Lease Number" ELSE "Drilling Permit Number"
             identifier_value ==
                 IF frm.lease_num_input # "" THEN frm.lease_num_input
                 ELSE frm.drilling_permit_input
             fetched == access_lease_drop
         IN  [response |->
                  IF FetchRaised THEN Shown("error", <<fetch_error.s>>)
                  ELSE IF Truthy(fetched[2]) THEN Shown("error", <<"Error: " \o fetched[2].s>>)
                  ELSE Shown("success", <<"Data retrieval attempt finished. Parsing results...">>),
              calls |-> <<FetchCall(identifier_type, identifier_value,
                                    frm.beg_period_input, frm.end_period_input)>>]

-----------------------------------------------------------------------------
(* The trend analysis of a stored query: rest_api.analyze_trend,           *)
(* lease_drop_wrapper.analyze_trend and                                    *)
(* ignition_integration.analyze_production_trend                           *)

\* float infinity with its sign
Inf(sign) == [k |-> "inf", n |-> sign, d |-> 1, s |-> ""]

\* a - b on float64: missing when either is missing
Minus(a, b) ==
    IF IsNull(a) \/ IsNull(b) THEN NaN
    ELSE Frac(a.n * b.d - b.n * a.d, a.d * b.d)

\* (change / base) * 100 on float64: x / 0 is inf or -inf, 0 / 0 is NaN
Percent(change, base) ==
    IF IsNull(change) \/ IsNull(base) THEN NaN
    ELSE IF base.n = 0
    THEN IF change.n = 0 THEN NaN ELSE Inf(IF change.n > 0 THEN 1 ELSE -1)
    ELSE IF base.n > 0 THEN Frac(change.n * base.d * 100, change.d * base.n)
    ELSE Frac((0 - change.n) * base.d * 100, change.d * (0 - base.n))

\* series.shift(1)
shift(series) == [i \in 1..Len(series) |-> IF i = 1 THEN NaN ELSE series[i - 1]]

\* the mean of the rows seen so far, from the first row on
rolling_mean_from_first_row(series, w) ==
    [i \in 1..Len(series) |->
        IF \E m \in 1..i : IsNull(series[m]) THEN NaN
        ELSE Frac(SeqSum([m \in 1..i |-> series[m].n]), i)]

\* series.rolling(window=w).mean(): missing until w values are in the
\* window and while a missing value is in it
rolling_mean(series, w) ==
    [i \in 1..Len(series) |->
        IF i < w \/ \E m \in (i - w + 1)..i : IsNull(series[m]) THEN NaN
        ELSE Frac(SeqSum([m \in 1..w |-> series[i - w + m].n]), w)]

NoTrend == [direction |-> "", slope |-> None, r_sign |-> 0, r_squared |-> None]

\* scipy.stats.linregress(range(len(y)), y) and the direction and strength
\* taken from it; r_value is held as its sign and its square, so that
\* strength = abs(r_value) is the root of r_squared
linregress(y) ==
    LET n == Len(y)
        Sx == SeqSum([i \in 1..n |-> i - 1])
        Sxx == SeqSum([i \in 1..n |-> (i - 1) * (i - 1)])
        Sy == SeqSum([i \in 1..n |-> y[i].n])
        Syy == SeqSum([i \in 1..n |-> y[i].n * y[i].n])
        Sxy == SeqSum([i \in 1..n |-> (i - 1) * y[i].n])
        ssxm == n * Sxx - Sx * Sx
        ssym == n * Syy - Sy * Sy
        ssxym == n * Sxy - Sx * Sy
    IN  IF \E i \in 1..n : IsNull(y[i])
        THEN [direction |-> "decreasing", slope |-> NaN, r_sign |-> 0, r_squared |-> NaN]
        ELSE [direction |-> IF ssxym > 0 THEN "increasing" ELSE "decreasing",
              slope |-> Frac(ssxym, ssxm),
              r_sign |-> IF ssym = 0 \/ ssxym = 0 THEN 0 ELSE IF ssxym > 0 THEN 1 ELSE -1,
              r_squared |-> IF ssym = 0 THEN Num(0) ELSE Frac(ssxym * ssxym, ssxm * ssym)]

\* lines 362-374: the overall trend
overall_trend(y) ==
    IF Len(y) >= 2 THEN linregress(y)
    ELSE [direction |-> "unknown", slope |-> Num(0), r_sign |-> 0, r_squared |-> Num(0)]

\* pd.DataFrame(json.loads(data_json))
DataFrame(data) ==
    [columns |-> IF data.rows = <<>> THEN <<>> ELSE data.keys, data |-> data.rows]

\* lines 345-360: the sorted rows with the seven computed columns
enrich(df, production_col, date_col) ==
    LET sorted == sort_values(df, date_col)
        production == Column(sorted, production_col)
        previous == shift(production)
        monthly == [i \in 1..Len(production) |-> Minus(production[i], previous[i])]
        first_production == production[1]
        cumulative == [i \in 1..Len(production) |-> Minus(production[i], first_production)]
    IN  [columns |-> sorted.columns \o
                     <<Str("previous_production"), Str("monthly_change"),
                       Str("monthly_pct_change"), Str("cumulative_change"),
                       Str("cumulative_pct_change"), Str("3_month_avg"),
                       Str("6_month_avg")>>,
         data |-> [i \in 1..Len(production) |->
                     sorted.data[i] \o
                     <<previous[i], monthly[i], Percent(monthly[i], previous[i]),
                       cumulative[i], Percent(cumulative[i], first_production),
                       rolling_mean(production, 3)[i], rolling_mean(production, 6)[i]>>]]

\* a result of the analysis: status, message or data, columns and trend
TrendBody(surface, code, status, message, data, production_col, date_col, trend) ==
    [surface |-> surface, code |-> code, status |-> status, message |-> message,
     data |-> data, production_col |-> production_col, date_col |-> date_col,
     trend |-> trend]

TrendError(surface, code, message) ==
    TrendBody(surface, IF surface = "rest_api" THEN code ELSE 0, "error", message,
              NoFrame, None, None, NoTrend)

\* the period column looked for before the production column
analyze_frame_date_first(surface, df) ==
    LET production_col == FirstColumn(df, CrudeOilColumns(df))
        date_col == FirstColumn(df, DateColumns(df))
    IN  IF ~Truthy(date_col)
        THEN TrendError(surface, 400, MsgNoDateColumn)
        ELSE IF ~Truthy(production_col)
        THEN TrendError(surface, 400, MsgNoProductionColumn)
        ELSE TrendBody(surface, IF surface = "rest_api" THEN 200 ELSE 0, "success", "",
                       enrich(SetColumn(df, production_col,
                                        to_numeric(Column(df, production_col))),
                              production_col, date_col),
                       production_col, date_col,
                       overall_trend(Column(sort_values(
                           SetColumn(df, production_col,
                                     to_numeric(Column(df, production_col))),
                           date_col), production_col)))

\* lines 312-390: the analysis of the stored rows
analyze_frame(surface, df) ==
    LET production_col == FirstColumn(df, CrudeOilColumns(df))
        coerced == SetColumn(df, production_col, to_numeric(Column(df, production_col)))
        date_col == FirstColumn(coerced, DateColumns(coerced))
    IN  IF ~Truthy(production_col)
        THEN TrendError(surface, 400, MsgNoProductionColumn)
        ELSE IF ~Truthy(date_col)
        THEN TrendError(surface, 400, MsgNoDateColumn)
        ELSE IF ~Sortable(coerced, date_col)
        THEN TrendError(surface, 500, MsgTrendError)
        ELSE TrendBody(surface, IF surface = "rest_api" THEN 200 ELSE 0, "success", "",
                       enrich(coerced, production_col, date_col), production_col, date_col,
                       overall_trend(Column(sort_values(coerced, date_col), production_col)))

\* get_lease_data_by_query_id: the rows stored for the query
StoredData(database, query_id) ==
    SelectSeq(database.lease_data, LAMBDA entry : entry.query_id = query_id)

\* lines 278-396 of rest_api.analyze_trend; the wrapper and the Ignition
\* function read the query through get_query_details and run the same
\* statements
analyze_trend(surface, database, query_id) ==
    IF query_id \notin 1..Len(database.lease_queries)
    THEN TrendError(surface, 404, "Query with ID " \o NatToStr(query_id) \o " not found")
    ELSE IF StoredData(database, query_id) = <<>>
            \/ StoredData(database, query_id)[1].data_json.rows = <<>>
    THEN TrendError(surface, 404,
                    "No data found for query with ID " \o NatToStr(query_id))
    ELSE analyze_frame(surface, DataFrame(StoredData(database, query_id)[1].data_json))

-----------------------------------------------------------------------------
(* The calls                                                               *)

NoResponse == ErrorBody("", 0, None, {}, NoQueryInfo)

\* no analysis requested, none run
NoCall == [surface |-> "", query_id |-> 0]

NoAnalysis ==
    [runs |-> 0, first |-> TrendError("", 0, ""), last |-> TrendError("", 0, ""),
     db_before |-> EmptyDb]

\* the browser session of one call of access_lease_drop: the position in
\* the function, the driver ("none", "open", "quit"), the index of the
\* recovery loop, whether the page last checked shows the cookie warning,
\* the page the browser is on, what the driver was asked to do so far, and
\* the pair about to be returned
Session(step) ==
    [step |-> step, driver |-> "none", attempt |-> 0, warning |-> FALSE,
     page |-> "blank", events |-> <<>>, pending |-> <<NoDocument, None>>]

\* no call of access_lease_drop is being followed
NoSession == Session("none")

\* a database that holds the query of an earlier request
PriorDb ==
    [EmptyDb EXCEPT !.lease_queries =
        <<QueryInfo(MakeRequest(AllFields, "Drilling Permit Number"), "error",
                    Str("Failed to reach Lease Drop - Crude Oil page after navigation attempts."))>>]

Init ==
    /\ \/ /\ request = MakeRequest(AllFields, "Lease Number")
          /\ html_content \in Documents
          /\ fetch_error = None
          /\ form = EmptyForm /\ pc = "idle"
       \/ /\ request = MakeRequest(AllFields, "Drilling Permit Number")
          /\ html_content \in SampleDocuments
          /\ fetch_error = None
          /\ form = EmptyForm /\ pc = "idle"
       \/ /\ request \in ValidRequests
          /\ html_content = NoDocument
          /\ fetch_error \in FetchErrors \cup FormErrors \cup FetchRaises
          /\ form = EmptyForm /\ pc = "idle"
       \/ /\ request \in InvalidRequests \cup EmptyIdentifierRequests \cup BodylessRequests
          /\ \/ html_content = NoDocument /\ fetch_error \in FetchErrors
             \/ html_content \in SampleDocuments /\ fetch_error = None
          /\ form = EmptyForm /\ pc = "idle"
       \/ /\ request = MakeRequest(AllFields, "Lease Number")
          /\ \/ html_content = NoDocument
                /\ fetch_error \in FetchErrors \cup FormErrors \cup FetchRaises
             \/ html_content \in SampleDocuments /\ fetch_error = None
          /\ form \in Forms /\ pc = "form"
    /\ \/ fault = "none" /\ db = EmptyDb
       \/ /\ request = MakeRequest(AllFields, "Lease Number")
          /\ form = EmptyForm
          /\ html_content \in SampleDocuments \cup {NoDocument}
          /\ fault \in Faults
          /\ db = PriorDb
       \/ /\ request = MakeRequest(AllFields, "Lease Number")
          /\ form = EmptyForm
          /\ html_content \in SampleDocuments \cup {NoDocument}
          /\ fault \in Faults \ {"none"}
          /\ db = EmptyDb
    /\ fetch_calls = <<>>
    /\ save_calls = <<>>
    /\ connections = 0
    /\ result = NoResult
    /\ response = NoResponse
    /\ trend_call = NoCall
    /\ analysis = NoAnalysis
    /\ session = NoSession

\* a direct call of process_lease_data on the fetched document
ProcessLeaseData ==
    /\ pc = "idle"
    /\ html_content # NoDocument
    /\ result' = process_lease_data(html_content)
    /\ pc' = "processed"
    /\ UNCHANGED <<request, form, html_content, fetch_error, fetch_calls, response, db, fault,
                 save_calls, connections, trend_call, analysis, session>>

\* POST /api/retrieve_data
RestRetrieveData ==
    /\ pc = "idle"
    /\ \E done \in {rest_retrieve_data(request, db)} :
           /\ response' = done.response
           /\ db' = done.db
           /\ save_calls' = save_calls \o done.saves
           /\ fetch_calls' = fetch_calls \o done.calls
           /\ connections' = connections + done.conns
    /\ pc' = "responded"
    /\ UNCHANGED <<request, form, html_content, fetch_error, result, fault, trend_call, analysis,
                 session>>

\* lease_drop_wrapper.py retrieve_data <identifier_type> <identifier_value> ...
WrapperRetrieveData ==
    /\ pc = "idle"
    /\ \E done \in {wrapper_retrieve_data(request, db)} :
           /\ response' = done.response
           /\ db' = done.db
           /\ save_calls' = save_calls \o done.saves
           /\ fetch_calls' = fetch_calls \o done.calls
           /\ connections' = connections + done.conns
    /\ pc' = "responded"
    /\ UNCHANGED <<request, form, html_content, fetch_error, result, fault, trend_call, analysis,
                 session>>

\* ignition_integration.retrieve_lease_data(...)
IgnitionRetrieveLeaseData ==
    /\ pc = "idle"
    /\ request.fields = AllFields
    /\ \E done \in {retrieve_unpacking_three("ignition", db, access_lease_drop)} :
           /\ response' = done.response
           /\ db' = done.db
           /\ save_calls' = save_calls \o done.saves
    /\ fetch_calls' = Append(fetch_calls, CallFor(request))
    /\ connections' = connections + 1
    /\ pc' = "responded"
    /\ UNCHANGED <<request, form, html_content, fetch_error, result, fault, trend_call, analysis,
                 session>>

\* the button "Get Lease Drop Data" of app.py
AppSubmit ==
    /\ pc = "form"
    /\ \E done \in {app_submit(form)} :
           /\ response' = done.response
           /\ fetch_calls' = fetch_calls \o done.calls
    /\ pc' = "responded"
    /\ UNCHANGED <<request, form, html_content, fetch_error, result, db, fault, save_calls,
                 connections, trend_call, analysis, session>>

Next ==
    \/ ProcessLeaseData
    \/ RestRetrieveData
    \/ WrapperRetrieveData
    \/ IgnitionRetrieveLeaseData
    \/ AppSubmit

Spec == Init /\ [][Next]_vars

-----------------------------------------------------------------------------
(* The analysis of stored queries                                          *)

\* reports whose production column is named "Crude Oil Production"
CrudeDocuments ==
    UNION {{Document("tables",
                     <<Table(<<"Period", "Crude Oil Production">>, 2, body)>>, "") :
               body \in [1..n -> PeriodRows]} : n \in 0..MaxRows}
    \cup {Document("tables",
                    <<Table(<<"Primary Taxpayer #", "Crude Oil Production">>, 2,
                            <<(<<"Period: 1601", "">>), (<<"x", "200">>),
                              (<<"Period: 1602", "">>), (<<"y", "180">>)>>)>>,
                    "")}

ProductionValues == {Num(0), Num(10), Num(30), NaN}

Ramp == <<1, 2, 4, 7, 11, 16, 22>>

\* the production of the stored rows, in stored order
ProductionSeries ==
    UNION {[1..n -> ProductionValues] : n \in 1..MaxSeriesLen}
    \cup {[i \in 1..n |-> Num(Ramp[i])] : n \in 5..Len(Ramp)}
    \cup {[i \in 1..n |-> Num(Ramp[n + 1 - i])] : n \in 5..Len(Ramp)}

\* rows of periods 2201, 2202, ... stored in ascending or descending order
StoredFrame(series, descending) ==
    [columns |-> <<Str("Period"), Str("Crude Oil Production")>>,
     data |-> [i \in 1..Len(series) |->
                 <<Num(2200 + (IF descending THEN Len(series) + 1 - i ELSE i)), series[i]>>]]

\* two stored rows under other column names
RenamedFrames ==
    {[columns |-> <<Str(period_name), Str(production_name)>>,
      data |-> <<(<<Num(2201), Num(10)>>), (<<Num(2202), Num(30)>>)>>] :
        period_name \in {"Period", "Month"},
        production_name \in {"Crude Oil Production", "Volume"}}

\* databases holding one query and its rows, a query without rows, and the
\* empty database
StoredDatabases ==
    {save_to_database(EmptyDb,
                      QueryInfo(MakeRequest(AllFields, "Lease Number"), "success", None),
                      <<frame>>, NoStats, None) :
        frame \in {StoredFrame(series, descending) :
                      series \in ProductionSeries, descending \in BOOLEAN}
                  \cup RenamedFrames}
    \cup {save_to_database(EmptyDb,
                            QueryInfo(MakeRequest(AllFields, "Lease Number"), "error",
                                      Str(MsgNoTables)),
                            <<>>, NoStats, None),
          EmptyDb}

TrendSurfaces == {"rest_api", "wrapper", "ignition"}

\* the reports retrieved before an analysis: every production rule, with
\* an explicit and with a synthesized period column
TrendDocuments ==
    {Document("tables", <<t>>, "") :
        t \in {nt \in NamedTables : Len(nt.body) = MaxProfileRows} \cup PeriodTables}
    \cup {Document("tables", <<t>>, "") :
              t \in {mt \in MarkerTables :
                         Len(mt.body) = 4 /\ mt.body[1] = <<"Period: 1601", "">>}}
    \cup CrudeDocuments

TrendCalls ==
    {[surface |-> "rest_api", query_id |-> q] : q \in 1..2}
    \cup {[surface |-> f, query_id |-> 1] : f \in TrendSurfaces}

\* a report about to be retrieved by POST /api/retrieve_data into an empty
\* database, or a database holding stored rows, and the analysis that will
\* be requested
TrendInit ==
    /\ fault = "none"
    /\ save_calls = <<>>
    /\ connections = 0
    /\ request = MakeRequest(AllFields, "Lease Number")
    /\ form = EmptyForm
    /\ fetch_error = None
    /\ fetch_calls = <<>>
    /\ \/ /\ html_content \in TrendDocuments
          /\ pc = "idle"
          /\ db = EmptyDb
          /\ trend_call = [surface |-> "rest_api", query_id |-> 1]
       \/ /\ html_content = NoDocument
          /\ pc = "responded"
          /\ db \in StoredDatabases
          /\ trend_call \in TrendCalls
    /\ response = NoResponse
    /\ result = NoResult
    /\ analysis = NoAnalysis
    /\ session = NoSession

\* the trend written back as the statistics of a further query
db_after_analysis_saving(database, out) ==
    [database EXCEPT !.lease_statistics =
        Append(@, [query_id |-> Len(database.lease_queries) + 1, statistics_json |-> out.trend])]

\* the finally clause closes the connection; nothing is written
db_after_analysis(database, out) == database

\* GET /api/analyze_trend/<query_id>, lease_drop_wrapper.py analyze_trend
\* <query_id>, ignition_integration.analyze_production_trend(query_id)
AnalyzeTrend ==
    /\ pc = "responded"
    /\ trend_call # NoCall
    /\ analysis.runs < MaxAnalyses
    /\ \E out \in {analyze_trend(trend_call.surface, db, trend_call.query_id)} :
           /\ analysis' = [runs |-> analysis.runs + 1,
                           first |-> IF analysis.runs = 0 THEN out ELSE analysis.first,
                           last |-> out,
                           db_before |-> IF analysis.runs = 0 THEN db
                                         ELSE analysis.db_before]
           /\ db' = db_after_analysis(db, out)
    /\ UNCHANGED <<request, form, html_content, fetch_error, fetch_calls, pc, result, response,
                 fault, save_calls, connections, trend_call, session>>

TrendNext ==
    \/ RestRetrieveData
    \/ AnalyzeTrend

TrendSpec == TrendInit /\ [][TrendNext]_vars

-----------------------------------------------------------------------------
(* access_lease_drop, statement by statement                               *)

MsgCookiesRequired == "Cookies are required and could not be enabled. Please try running the application again."

MsgFormElements == "Error: Could not find form elements. Check element names/XPATH."

MsgFormInteraction == "An error occurred during form interaction: "

MsgCookiePage == "Navigation failed, ended up on 'Cookies are required' page. Please try again later."

MsgNotReached == "Failed to reach Lease Drop - Crude Oil page after navigation attempts."

MsgGeneralError == "General error during access attempt: "

\* the texts of the WebDriverException met in the session
NetworkFailure == "Message: unknown error: net::ERR_NAME_NOT_RESOLVED"

StaleElement == "Message: stale element reference"

DriverFailure == "Message: Unable to obtain driver for chrome"

SessionLost == "Message: disconnected: not connected to DevTools"

\* the four elements of the inquiry form, in the order the code looks for them
FormElements == <<"identifier", "beg_period", "end_period", "submit">>

\* the position after a lookup
NextPosition(element) ==
    CASE element = "identifier" -> "locate_beg_period"
      [] element = "beg_period" -> "locate_end_period"
      [] element = "end_period" -> "fill_periods"
      [] element = "submit" -> "click_submit"

\* a lookup that goes on without the element
after_lookup_unchecked(element, found) == NextPosition(element)

\* if <element> is None: raise TimeoutException(...)
after_lookup(element, found) ==
    IF found THEN NextPosition(element) ELSE "timeout"

\* a loop of four recovery attempts
recovery_continues_four(attempt, warning) == warning /\ attempt < 4

\* for attempt in range(3): ... if "Cookies are required" not in ...: break
\* whether another attempt follows the attempt numbered `attempt` (1..3)
recovery_continues(attempt, warning) == warning /\ attempt < 3

\* the driver is asked to do something
Did(sess, happened) == [sess EXCEPT !.events = @ \o happened]

\* return <pair> inside the try: the finally clause runs next
Returning(sess, pair) == [sess EXCEPT !.step = "finally", !.pending = pair]

\* an exception inside the try that only `except Exception` catches
Caught(sess, text) == [sess EXCEPT !.step = "except", !.pending = <<NoDocument, Exc(text)>>]

\* an exception outside the try leaves the function at once
Raising(sess, text) == [sess EXCEPT !.step = "raised", !.pending = <<NoDocument, Exc(text)>>]

FetchInit ==
    /\ request \in ValidRequests
    /\ form = EmptyForm
    /\ html_content = NoDocument
    /\ fetch_error = None
    /\ fetch_calls = <<CallFor(request)>>
    /\ pc = "fetching"
    /\ result = NoResult
    /\ response = NoResponse
    /\ db = EmptyDb
    /\ fault = "none"
    /\ save_calls = <<>>
    /\ connections = 0
    /\ trend_call = NoCall
    /\ analysis = NoAnalysis
    /\ session = Session("create_driver")

\* line 75: driver = webdriver.Chrome(options=options)
CreateDriver ==
    /\ session.step = "create_driver"
    /\ \E started \in BOOLEAN :
           IF started
           THEN /\ session' = [Did(session, <<"Chrome">>) EXCEPT !.step = "configure_driver",
                                                                  !.driver = "open"]
                /\ UNCHANGED fetch_error
           ELSE /\ session' = Raising(session, DriverFailure)
                /\ fetch_error' = Exc(DriverFailure)
    /\ UNCHANGED <<request, form, html_content, fetch_calls, pc, result, response, db, fault,
                 save_calls, connections, trend_call, analysis>>

\* lines 77-80: driver.execute_script(...); driver.set_window_size(1366, 768),
\* both before the try statement
ConfigureDriver ==
    /\ session.step = "configure_driver"
    /\ \E failing \in {"nothing", "execute_script", "set_window_size"} :
           IF failing = "nothing"
           THEN /\ session' = [Did(session, <<"execute_script", "set_window_size">>)
                                  EXCEPT !.step = "establish_session"]
                /\ UNCHANGED fetch_error
           ELSE /\ session' = Raising(Did(session, <<failing>>), SessionLost)
                /\ fetch_error' = Exc(SessionLost)
    /\ UNCHANGED <<request, form, html_content, fetch_calls, pc, result, response, db, fault,
                 save_calls, connections, trend_call, analysis>>

\* lines 82-102: the index page, the cookie, the check page and the test
\* for the warning on it
EstablishSession ==
    /\ session.step = "establish_session"
    /\ \E loaded \in BOOLEAN, warning \in BOOLEAN :
           session' =
               IF ~loaded
               THEN Caught(Did(session, <<"get Index.jsp">>), NetworkFailure)
               ELSE [Did(session, <<"get Index.jsp", "get check">>)
                        EXCEPT !.page = "check", !.warning = warning,
                               !.step = IF warning THEN "recover" ELSE "navigate"]
    /\ UNCHANGED <<request, form, html_content, fetch_error, fetch_calls, pc, result, response,
                 db, fault, save_calls, connections, trend_call, analysis>>

\* lines 105-130: one pass of the recovery loop
RecoverCookies ==
    /\ session.step = "recover"
    /\ \E loaded \in BOOLEAN, warning \in BOOLEAN :
           session' =
               IF ~loaded
               THEN Caught(Did(session, <<"attempt", "delete_all_cookies", "get Index.jsp">>),
                           NetworkFailure)
               ELSE [Did(session, <<"attempt", "delete_all_cookies", "get Index.jsp",
                                    "get check",
                                    IF warning THEN "warning shown" ELSE "warning gone">>)
                        EXCEPT !.attempt = @ + 1, !.warning = warning,
                               !.step = IF recovery_continues(session.attempt + 1, warning)
                                        THEN "recover" ELSE "final_check"]
    /\ UNCHANGED <<request, form, html_content, fetch_error, fetch_calls, pc, result, response,
                 db, fault, save_calls, connections, trend_call, analysis>>

\* lines 132-135: the check after the loop
FinalCookieCheck ==
    /\ session.step = "final_check"
    /\ session' = IF session.warning
                  THEN Returning(session, <<NoDocument, Str(MsgCookiesRequired)>>)
                  ELSE [session EXCEPT !.step = "navigate"]
    /\ UNCHANGED <<request, form, html_content, fetch_error, fetch_calls, pc, result, response,
                 db, fault, save_calls, connections, trend_call, analysis>>

\* lines 137-160: the link is clicked, or the page is opened by its address
\* when the link is not found or the click fails
NavigateToLeaseDrop ==
    /\ session.step = "navigate"
    /\ \E link \in {"clicked", "timeout", "error", "unreachable"},
          page \in {"lease_drop", "cookies_required", "unknown"} :
           session' =
               IF link = "clicked"
               THEN [Did(session, <<"click link">>) EXCEPT !.page = page, !.step = "landed"]
               ELSE IF link = "unreachable"
               THEN Caught(Did(session, <<"get reportLeaseDropCOForward.do">>), NetworkFailure)
               ELSE [Did(session, <<"get reportLeaseDropCOForward.do">>)
                        EXCEPT !.page = page, !.step = "landed"]
    /\ UNCHANGED <<request, form, html_content, fetch_error, fetch_calls, pc, result, response,
                 db, fault, save_calls, connections, trend_call, analysis>>

\* lines 165 and 415-424: the page reached
VerifyNavigation ==
    /\ session.step = "landed"
    /\ session' =
           IF session.page = "lease_drop"
           THEN [session EXCEPT !.step = "locate_identifier"]
           ELSE IF session.page = "cookies_required"
           THEN Returning(session, <<NoDocument, Str(MsgCookiePage)>>)
           ELSE Returning(session, <<NoDocument, Str(MsgNotReached)>>)
    /\ UNCHANGED <<request, form, html_content, fetch_error, fetch_calls, pc, result, response,
                 db, fault, save_calls, connections, trend_call, analysis>>

\* lines 193-255: the input of the lease number or of the drilling permit
\* number is looked for with every selector, then cleared and filled
LocateIdentifier ==
    /\ session.step = "locate_identifier"
    /\ \E found \in BOOLEAN, typed \in BOOLEAN :
           session' =
               IF ~found
               THEN [Did(session, <<"missing identifier">>)
                        EXCEPT !.step = after_lookup("identifier", FALSE)]
               ELSE IF ~typed
               THEN Returning(Did(session, <<"locate identifier">>),
                              <<NoDocument, Str(MsgFormInteraction \o StaleElement)>>)
               ELSE [Did(session, <<"locate identifier", "fill identifier">>)
                        EXCEPT !.step = after_lookup("identifier", TRUE)]
    /\ UNCHANGED <<request, form, html_content, fetch_error, fetch_calls, pc, result, response,
                 db, fault, save_calls, connections, trend_call, analysis>>

\* lines 258-282: the input of the first period
LocateBeginPeriod ==
    /\ session.step = "locate_beg_period"
    /\ \E found \in BOOLEAN :
           session' = [Did(session, <<IF found THEN "locate beg_period" ELSE "missing beg_period">>)
                          EXCEPT !.step = after_lookup("beg_period", found)]
    /\ UNCHANGED <<request, form, html_content, fetch_error, fetch_calls, pc, result, response,
                 db, fault, save_calls, connections, trend_call, analysis>>

\* lines 284-308: the input of the last period
LocateEndPeriod ==
    /\ session.step = "locate_end_period"
    /\ \E found \in BOOLEAN :
           session' = [Did(session, <<IF found THEN "locate end_period" ELSE "missing end_period">>)
                          EXCEPT !.step = after_lookup("end_period", found)]
    /\ UNCHANGED <<request, form, html_content, fetch_error, fetch_calls, pc, result, response,
                 db, fault, save_calls, connections, trend_call, analysis>>

\* lines 310-317: both periods are typed
FillPeriods ==
    /\ session.step = "fill_periods"
    /\ \E typed \in BOOLEAN :
           session' =
               IF typed
               THEN [Did(session, <<"fill beg_period", "fill end_period">>)
                        EXCEPT !.step = "locate_submit"]
               ELSE Returning(session, <<NoDocument, Str(MsgFormInteraction \o StaleElement)>>)
    /\ UNCHANGED <<request, form, html_content, fetch_error, fetch_calls, pc, result, response,
                 db, fault, save_calls, connections, trend_call, analysis>>

\* lines 320-380: the submit button, by the selectors or by the search of
\* every button of the page
LocateSubmit ==
    /\ session.step = "locate_submit"
    /\ \E found \in {"selector", "last resort", "nowhere"} :
           session' = [Did(session, <<IF found # "nowhere" THEN "locate submit"
                                           ELSE "missing submit">>)
                          EXCEPT !.step = after_lookup("submit", found # "nowhere")]
    /\ UNCHANGED <<request, form, html_content, fetch_error, fetch_calls, pc, result, response,
                 db, fault, save_calls, connections, trend_call, analysis>>

\* lines 386-404: the button is scrolled into view and clicked, the page
\* that follows is returned
ClickSubmit ==
    /\ session.step = "click_submit"
    /\ \E failing \in {"nothing", "scrollIntoView", "click"}, page \in SampleDocuments :
           session' =
               IF failing = "scrollIntoView"
               THEN Returning(session, <<NoDocument, Str(MsgFormInteraction \o StaleElement)>>)
               ELSE IF failing = "click"
               THEN Returning(Did(session, <<"click submit">>),
                              <<NoDocument, Str(MsgFormInteraction \o StaleElement)>>)
               ELSE Returning([Did(session, <<"click submit">>) EXCEPT !.page = "results"],
                              <<page, None>>)
    /\ UNCHANGED <<request, form, html_content, fetch_error, fetch_calls, pc, result, response,
                 db, fault, save_calls, connections, trend_call, analysis>>

\* lines 406-409 (and 411-413 for any other exception, returned where
\* it is met): except TimeoutException
FormElementsNotFound ==
    /\ session.step = "timeout"
    /\ session' = Returning(session, <<NoDocument, Str(MsgFormElements)>>)
    /\ UNCHANGED <<request, form, html_content, fetch_error, fetch_calls, pc, result, response,
                 db, fault, save_calls, connections, trend_call, analysis>>

\* lines 426-430: except Exception as e
GeneralError ==
    /\ session.step = "except"
    /\ session' = Returning(session,
                            <<NoDocument, Str(MsgGeneralError \o session.pending[2].s)>>)
    /\ UNCHANGED <<request, form, html_content, fetch_error, fetch_calls, pc, result, response,
                 db, fault, save_calls, connections, trend_call, analysis>>

\* lines 431-435: finally: driver.quit(), then the pair reaches the caller
QuitDriver ==
    /\ session.step = "finally"
    /\ session' = [Did(session, <<"quit">>) EXCEPT !.step = "returned", !.driver = "quit"]
    /\ html_content' = session.pending[1]
    /\ fetch_error' = session.pending[2]
    /\ UNCHANGED <<request, form, fetch_calls, pc, result, response, db, fault, save_calls,
                 connections, trend_call, analysis>>

FetchNext ==
    \/ CreateDriver
    \/ ConfigureDriver
    \/ EstablishSession
    \/ RecoverCookies
    \/ FinalCookieCheck
    \/ NavigateToLeaseDrop
    \/ VerifyNavigation
    \/ LocateIdentifier
    \/ LocateBeginPeriod
    \/ LocateEndPeriod
    \/ FillPeriods
    \/ LocateSubmit
    \/ ClickSubmit
    \/ FormElementsNotFound
    \/ GeneralError
    \/ QuitDriver

FetchSpec == FetchInit /\ [][FetchNext]_vars

-----------------------------------------------------------------------------
(* Properties of process_lease_data                                        *)

Processed == pc = "processed"

HasTables == html_content.kind = "tables"

\* the first table of the document, as parsed
FirstTable == read_html(html_content)[1]

\* the highest-priority rule a column matches: 1 CRUDE and OIL,
\* 2 GROSS and BARRELS, 3 BARRELS or BBL, 4 numeric last resort, 5 none
RuleOf(df, col) ==
    IF IsCrudeOil(col) THEN 1
    ELSE IF IsGrossBarrels(col) THEN 2
    ELSE IF IsBarrels(col) THEN 3
    ELSE IF IsNumericProduction(df, col) THEN 4
    ELSE 5

\* C1: the column the four loops select is a column of the FIRST table; no
\* column of that table matches a rule of higher priority than the selected
\* one, and no earlier column matches the same rule; nothing is selected
\* exactly when no column of the first table matches any rule.
C1_OrderedFallback ==
    (Processed /\ HasTables) =>
        LET df == FirstTable
            selected == result.selected_col
            n == Len(df.columns)
        IN  IF \A j \in 1..n : RuleOf(df, df.columns[j]) = 5
            THEN selected = None
            ELSE /\ HasColumn(df, selected)
                 /\ \A j \in 1..n : RuleOf(df, selected) <= RuleOf(df, df.columns[j])
                 /\ \A j \in 1..(ColumnIndex(df, selected) - 1) :
                        RuleOf(df, df.columns[j]) > RuleOf(df, selected)

\* a numeric column, then a BBL column, then the selected GROSS BARRELS
\* column, in a document with a second table
C1_Witness ==
    /\ Processed /\ HasTables
    /\ Len(html_content.tables) = 2
    /\ Len(FirstTable.columns) = 3
    /\ RuleOf(FirstTable, FirstTable.columns[1]) = 4
    /\ RuleOf(FirstTable, FirstTable.columns[2]) = 3
    /\ RuleOf(FirstTable, FirstTable.columns[3]) = 2
    /\ result.selected_col = FirstTable.columns[3]

CrudeOilProduction == Str("Crude Oil Production")

\* C2 as stated: whenever the first table has a column named
\* "Crude Oil Production", that column is the returned production column.
C2_LiteralColumnAlwaysReturned ==
    (Processed /\ HasTables /\ HasColumn(FirstTable, CrudeOilProduction)) =>
        result.production_col = CrudeOilProduction

\* C2 amended: the column named "Crude Oil Production" is the returned
\* production column whatever other columns surround it, unless an earlier
\* column's name also contains CRUDE and OIL; then the earliest such column
\* is returned.
C2_LiteralColumnReturnedUnlessEarlierCrudeOil ==
    (Processed /\ HasTables /\ HasColumn(FirstTable, CrudeOilProduction)) =>
        LET df == FirstTable
            earlier == {i \in 1..(ColumnIndex(df, CrudeOilProduction) - 1) :
                           IsCrudeOil(df.columns[i])}
        IN  IF earlier = {}
            THEN result.production_col = CrudeOilProduction
            ELSE result.production_col =
                     df.columns[CHOOSE i \in earlier : \A m \in earlier : i <= m]

\* "Crude Oil Production" returned although a numeric column and a
\* GROSS BARRELS column precede it
C2_Witness ==
    /\ Processed /\ HasTables
    /\ Len(FirstTable.columns) = 3
    /\ RuleOf(FirstTable, FirstTable.columns[1]) = 4
    /\ RuleOf(FirstTable, FirstTable.columns[2]) = 2
    /\ FirstTable.columns[3] = CrudeOilProduction
    /\ result.production_col = CrudeOilProduction

-----------------------------------------------------------------------------
(* The percentage change                                                   *)

\* the first table as process_lease_data returned it
ReturnedTable == result.tables[1]

\* the production cell of row i of the returned first table
ProductionAt(i) ==
    ReturnedTable.data[i][ColumnIndex(ReturnedTable, result.production_col)]

\* the period cell of row i of the returned first table
PeriodAt(i) == ReturnedTable.data[i][ColumnIndex(ReturnedTable, result.date_col)]

\* the rows of the returned first table with production > 0
PositiveIndexes ==
    {i \in 1..Len(ReturnedTable.data) : ProductionAt(i).k = "num" /\ ProductionAt(i).n > 0}

FirstOf(S) == CHOOSE i \in S : \A m \in S : i <= m

LastOf(S) == CHOOSE i \in S : \A m \in S : i >= m

StartsWith(text, prefix) ==
    Len(text) >= Len(prefix) /\ SubSeq(text, 1, Len(prefix)) = prefix

ErrorIs(message) == result.error_message = Str(message)

Scenario1 ==
    Document("tables",
             <<Table(<<"Period", "Barrels">>, 2, <<(<<"2201", "100">>), (<<"2202", "50">>)>>)>>,
             "")

\* C3: when no error is returned, the returned first table is in period
\* order, and pct_change = (last - first) / first * 100 for first and last
\* the production of the first and the last of its rows with production > 0;
\* periods 2201/2202 with 100 and 50 barrels give -50.
C3_PctChangeFirstToLast ==
    (Processed /\ result.error_message = None) =>
        /\ \A a, b \in 1..Len(ReturnedTable.data) :
               a < b => ~KeyLess(PeriodAt(b), PeriodAt(a))
        /\ PositiveIndexes # {}
        /\ LET first == ProductionAt(FirstOf(PositiveIndexes)).n
               last == ProductionAt(LastOf(PositiveIndexes)).n
           IN  /\ result.pct_change.k = "num"
               /\ result.pct_change.d # 0
               /\ result.pct_change.n * first
                      = (last - first) * 100 * result.pct_change.d
        /\ (html_content = Scenario1 =>
               result.pct_change.n = (-50) * result.pct_change.d)

\* rows given as 2202/50, 901/0, 2201/100: sorted to 901, 2201, 2202, the
\* zero row skipped, and the change from 100 to 50 reported
C3_Witness ==
    /\ Processed
    /\ html_content =
           Document("tables",
                    <<Table(<<"Period", "Barrels">>, 2,
                            <<(<<"2202", "50">>), (<<"901", "0">>), (<<"2201", "100">>)>>)>>,
                    "")
    /\ result.error_message = None
    /\ PositiveIndexes = {2, 3}
    /\ result.pct_change.n = (-50) * result.pct_change.d

-----------------------------------------------------------------------------
(* Documents without tables                                                *)

\* C4: for a document with no table the result is the empty tables
\* sequence, no production column, no period column, no stats, no
\* pct_change and an error starting with 'No tables found'; no other
\* document, a malformed one included, is given an error starting so.
C4_NoTablesDistinguishable ==
    Processed =>
        /\ result.error_message.k = "str"
               => result.line \in {544, 565, 568, 570, 572, 574, 577, 580}
        /\ html_content.kind = "no_tables" =>
               /\ result.tables = <<>>
               /\ result.production_col = None
               /\ result.date_col = None
               /\ result.stats_df = NoStats
               /\ result.pct_change = None
               /\ result.error_message.k = "str"
               /\ StartsWith(result.error_message.s, "No tables found")
        /\ html_content.kind # "no_tables" =>
               ~(/\ result.error_message.k = "str"
                 /\ StartsWith(result.error_message.s, "No tables found"))
        /\ html_content.kind = "malformed" =>
               /\ result.error_message.k = "str"
               /\ StartsWith(result.error_message.s, MsgParseError)

\* a document without a table, processed
C4_Witness ==
    /\ Processed
    /\ html_content.kind = "no_tables"
    /\ result.line = 577
    /\ result.error_message = Str(MsgNoResults \o "No tables found")

-----------------------------------------------------------------------------
(* The synthesized Period column                                           *)

MarkerHeader == <<"Primary Taxpayer #", "Barrels">>

\* the rows of the first table as the document gives them
RawRows == html_content.tables[1].body

IsMarker(i) == RawRows[i][1] \in {"Period: 1601", "Period: 1602", "Period: 901"}

MarkerValue(i) ==
    CASE RawRows[i][1] = "Period: 1601" -> "1601"
      [] RawRows[i][1] = "Period: 1602" -> "1602"
      [] RawRows[i][1] = "Period: 901" -> "901"

\* the barrels of a data row
BarrelsValue(i) ==
    CASE RawRows[i][2] = "200" -> 200
      [] RawRows[i][2] = "180" -> 180
      [] RawRows[i][2] = "0" -> 0

\* the markers at or above row i
MarkersAbove(i) == {m \in 1..i : IsMarker(m)}

\* the row expected for data row i: its taxpayer, its barrels and the value
\* of the nearest marker at or above it
ExpectedRow(i) ==
    <<Str(RawRows[i][1]), Num(BarrelsValue(i)),
      IF MarkersAbove(i) = {} THEN None ELSE Str(MarkerValue(LastOf(MarkersAbove(i))))>>

DataRows == {i \in 1..Len(RawRows) : ~IsMarker(i)}

Scenario4 ==
    Document("tables",
             <<Table(MarkerHeader, 2,
                     <<(<<"Period: 1601", "">>), (<<"x", "200">>),
                       (<<"Period: 1602", "">>), (<<"y", "180">>)>>)>>,
             "")

\* C5: for a first table with the marker column 'Primary Taxpayer #' and no
\* date or period column, the returned table has a third column Period and
\* holds exactly the data rows, each as often as the document has it and
\* each with the value of the nearest 'Period: <value>' marker at or above
\* it; markers 1601/1602 with 200 and 180 barrels give two rows and -10.
C5_PeriodCarriedForward ==
    (Processed /\ HasTables /\ html_content.tables[1].header = MarkerHeader) =>
        /\ ReturnedTable.columns = <<TaxpayerLabel, Str("Barrels"), PeriodLabel>>
        /\ result.date_col = PeriodLabel
        /\ Len(ReturnedTable.data) = Cardinality(DataRows)
        /\ \A i \in DataRows :
               Cardinality({k \in 1..Len(ReturnedTable.data) :
                               ReturnedTable.data[k] = ExpectedRow(i)})
                   = Cardinality({m \in DataRows : ExpectedRow(m) = ExpectedRow(i)})
        /\ (html_content = Scenario4 =>
               /\ Len(ReturnedTable.data) = 2
               /\ PeriodAt(1) = Str("1601") /\ PeriodAt(2) = Str("1602")
               /\ result.error_message = None
               /\ result.pct_change.n = (-10) * result.pct_change.d)

\* markers 1601 and 1602 above one data row each
C5_Witness ==
    /\ Processed
    /\ html_content = Scenario4
    /\ Len(ReturnedTable.data) = 2
    /\ PeriodAt(2) = Str("1602")
    /\ result.pct_change.n = (-10) * result.pct_change.d

-----------------------------------------------------------------------------
(* Errors with partial results                                             *)

\* C6: with 'production column not found' the parsed tables are returned;
\* with 'date column not found', 'not enough data points' and 'not enough
\* non-zero values' the tables, the production column and the statistics of
\* that column are returned with the error; no error comes with a
\* pct_change.
C6_ErrorsKeepPartialResults ==
    Processed =>
        /\ ErrorIs(MsgNoProductionColumn) =>
               /\ result.tables = read_html(html_content)
               /\ Len(result.tables) >= 1
        /\ (ErrorIs(MsgNoDateColumn) \/ ErrorIs(MsgNotEnoughData)
                \/ ErrorIs(MsgNotEnoughNonZero)) =>
               /\ Len(result.tables) = Len(html_content.tables)
               /\ Len(result.tables) >= 1
               /\ \A j \in 1..Len(FirstTable.columns) :
                      HasColumn(ReturnedTable, FirstTable.columns[j])
               /\ HasColumn(ReturnedTable, result.production_col)
               /\ result.production_col = find_production_col(FirstTable)
               /\ result.stats_df.k = "stats"
               /\ result.stats_df.Count
                      = Num(Count(to_numeric(Column(FirstTable, result.production_col))))
        /\ result.error_message # None => result.pct_change = None

\* 'date column not found' for the first of two tables, returned with both
\* tables, the production column and its statistics
C6_Witness ==
    /\ Processed
    /\ ErrorIs(MsgNoDateColumn)
    /\ Len(result.tables) = 2
    /\ result.production_col = Str("Gross Barrels")
    /\ result.stats_df.Count = Num(MaxProfileRows)
    /\ result.pct_change = None

-----------------------------------------------------------------------------
(* Short tables                                                            *)

ShortTable == Processed /\ HasTables /\ Len(ReturnedTable.data) <= 1

\* C7 as stated: every first table left with zero rows or one row is given
\* the 'insufficient data points' error, without a pct_change and with the
\* table, the columns and the stats.
C7_ShortTableAlwaysInsufficientData ==
    ShortTable =>
        /\ ErrorIs(MsgNotEnoughData)
        /\ result.pct_change = None
        /\ result.production_col # None
        /\ result.date_col # None
        /\ result.stats_df.k = "stats"

\* C7 amended: a first table left with zero rows or one row never gets a
\* pct_change and no exception is reported for it; when its production
\* column and its period column are both identified the error is
\* 'insufficient data points', returned with the table, the columns and the
\* stats; otherwise the error is that of the column that was not found: the
\* production column when none is identified or the identified label is 0 or
\* empty, else the period column.
C7_ShortTableNeverComputes ==
    ShortTable =>
        /\ result.pct_change = None
        /\ result.line \in {544, 570, 572}
        /\ IF ~Truthy(find_production_col(FirstTable))
           THEN ErrorIs(MsgNoProductionColumn)
           ELSE IF DateColumns(FirstTable) = {} /\ ~HasColumn(FirstTable, TaxpayerLabel)
           THEN ErrorIs(MsgNoDateColumn)
           ELSE /\ ErrorIs(MsgNotEnoughData)
                /\ HasColumn(ReturnedTable, result.production_col)
                /\ HasColumn(ReturnedTable, result.date_col)
                /\ result.stats_df.k = "stats"

\* three marker and data rows cleaned to one data row
C7_Witness ==
    /\ ShortTable
    /\ Len(RawRows) = 3
    /\ Len(ReturnedTable.data) = 1
    /\ result.date_col = PeriodLabel
    /\ ErrorIs(MsgNotEnoughData)
    /\ result.stats_df.Count = Num(1)

-----------------------------------------------------------------------------
(* The positive filter                                                     *)

\* both columns were identified and the cleaned first table was returned
Analyzed ==
    /\ Processed /\ HasTables
    /\ result.production_col # None
    /\ result.date_col # None

\* C8: with both columns identified, at least 2 rows and fewer than 2 rows
\* of production > 0, the error is 'not enough non-zero production values',
\* there is no pct_change and the statistics are returned; their mean is 0
\* when every production value is 0.
C8_FewPositiveRows ==
    (Analyzed /\ Len(ReturnedTable.data) >= 2 /\ Cardinality(PositiveIndexes) < 2) =>
        /\ ErrorIs(MsgNotEnoughNonZero)
        /\ result.pct_change = None
        /\ result.stats_df.k = "stats"
        /\ (\A i \in 1..Len(ReturnedTable.data) : ProductionAt(i) = Num(0)) =>
               /\ result.stats_df.Count = Num(Len(ReturnedTable.data))
               /\ result.stats_df.Mean.k = "num"
               /\ result.stats_df.Mean.n = 0

\* periods 2201 and 2202, both with 0 barrels
C8_Witness ==
    /\ Analyzed
    /\ html_content =
           Document("tables",
                    <<Table(<<"Period", "Barrels">>, 2,
                            <<(<<"2201", "0">>), (<<"2202", "0">>)>>)>>,
                    "")
    /\ ErrorIs(MsgNotEnoughNonZero)
    /\ result.stats_df.Mean.n = 0
    /\ result.stats_df.Count = Num(2)

\* C9: the rows kept for the percentage change are exactly the rows of the
\* sorted table with production > 0, in their order; a row with zero,
\* negative or null production is never kept; and whenever a pct_change is
\* computed its divisor first_production is > 0.
C9_FilterKeepsExactlyPositive ==
    (Processed /\ result.line \in {562, 565}) =>
        /\ result.non_zero_df.columns = ReturnedTable.columns
        /\ Len(result.non_zero_df.data) = Cardinality(PositiveIndexes)
        /\ \A i \in PositiveIndexes :
               result.non_zero_df.data[Cardinality({m \in PositiveIndexes : m <= i})]
                   = ReturnedTable.data[i]
        /\ \A k \in 1..Len(result.non_zero_df.data) :
               LET kept == result.non_zero_df.data[k][ColumnIndex(ReturnedTable,
                                                                  result.production_col)]
               IN  kept.k = "num" /\ kept.n > 0 /\ kept.d > 0
        /\ result.pct_change # None =>
               /\ result.first_production = ProductionAt(FirstOf(PositiveIndexes))
               /\ result.first_production.k = "num"
               /\ result.first_production.n > 0
               /\ result.pct_change.d > 0

\* a row of -5 barrels at the earliest period, left out of the division
C9_Witness ==
    /\ Processed
    /\ result.line = 562
    /\ Len(ReturnedTable.data) = 3
    /\ ProductionAt(1) = Num(-5)
    /\ PositiveIndexes = {2, 3}
    /\ result.first_production = ProductionAt(2)

-----------------------------------------------------------------------------
(* Partial results on the surfaces                                         *)

Responded == pc = "responded"

\* C10: when the page was fetched and process_lease_data returns an error
\* together with tables, the response of the surface carries those tables,
\* and the statistics when they were computed.
C10_SurfacesCarryPartialResults ==
    (/\ Responded
     /\ request \in ValidRequests
     /\ fetch_error = None
     /\ html_content.kind = "tables") =>
        \A processed \in {process_lease_data(html_content)} :
            processed.error_message # None =>
                /\ "tables" \in response.keys
                /\ Len(response.tables) = Len(processed.tables)
                /\ processed.stats_df.k = "stats" =>
                       response.statistics = processed.stats_df

-----------------------------------------------------------------------------
(* Properties of the trend analysis                                        *)

Analysed == analysis.runs >= 1

\* the analysis follows a successful POST /api/retrieve_data
RetrievedThenAnalysed ==
    /\ Analysed
    /\ html_content # NoDocument
    /\ response.status = "success"

\* C11: for every dataset stored by a successful retrieval, the analysis
\* succeeds on the production column and the period column the extraction
\* returned.
C11_AnalyzerUsesExtractedColumns ==
    RetrievedThenAnalysed =>
        /\ analysis.last.status = "success"
        /\ analysis.last.production_col = Str(PyStr(response.production_column))
        /\ analysis.last.date_col = Str(PyStr(response.date_column))

\* the rows stored for the analysed query, as written in data_json
StoredJson == StoredData(db, trend_call.query_id)[1].data_json

HasStoredRows ==
    /\ trend_call.query_id \in 1..Len(db.lease_queries)
    /\ StoredData(db, trend_call.query_id) # <<>>
    /\ StoredJson.rows # <<>>

KeyHas(j, word) == Contains(Upper(StoredJson.keys[j].s), word)

CrudeOilKeys == {j \in 1..Len(StoredJson.keys) : KeyHas(j, "CRUDE") /\ KeyHas(j, "OIL")}

DateKeys == {j \in 1..Len(StoredJson.keys) : KeyHas(j, "DATE") \/ KeyHas(j, "PERIOD")}

\* C12: every analysis ends with status success or error; an unknown query
\* id gives 'Query with ID ... not found', a query without stored rows gives
\* 'No data found ...', stored rows without a CRUDE OIL column give the
\* production-column error whether or not a period column exists, stored
\* rows with a CRUDE OIL column and without a DATE/PERIOD column give the
\* date-column error; an error comes with no data, columns or trend.
C12_AnalyzerErrorsAreValues ==
    Analysed =>
        LET out == analysis.last
            id == NatToStr(trend_call.query_id)
        IN  /\ out.status \in {"success", "error"}
            /\ out.status = "error" =>
                   /\ out.data = NoFrame /\ out.trend = NoTrend
                   /\ out.production_col = None /\ out.date_col = None
            /\ IF trend_call.query_id \notin 1..Len(db.lease_queries)
               THEN /\ out.status = "error"
                    /\ out.message = "Query with ID " \o id \o " not found"
               ELSE IF ~HasStoredRows
               THEN /\ out.status = "error"
                    /\ out.message = "No data found for query with ID " \o id
               ELSE IF CrudeOilKeys = {}
               THEN out.status = "error" /\ out.message = MsgNoProductionColumn
               ELSE IF DateKeys = {}
               THEN out.status = "error" /\ out.message = MsgNoDateColumn
               ELSE out.status = "success"

\* stored rows with neither column: the production-column error is reported
C12_Witness ==
    /\ Analysed
    /\ HasStoredRows
    /\ CrudeOilKeys = {} /\ DateKeys = {}
    /\ analysis.last.message = MsgNoProductionColumn
    /\ analysis.last.data = NoFrame

AnalysedOk == Analysed /\ analysis.last.status = "success"

\* the enriched rows and the cells of row i
OutRows == analysis.last.data.data

OutCell(i, name) == OutRows[i][ColumnIndex(analysis.last.data, Str(name))]

OutProduction(i) == OutRows[i][ColumnIndex(analysis.last.data, analysis.last.production_col)]

OutPeriod(i) == OutRows[i][ColumnIndex(analysis.last.data, analysis.last.date_col)]

\* pct is change / base * 100
IsPercentOf(pct, change, base) ==
    /\ pct.k = "num"
    /\ pct.n * base.n * change.d = change.n * 100 * pct.d * base.d

Window(i, w) == (i - w + 1)..i

StrictlyMonotonic(rows) ==
    \/ \A a, b \in rows : a < b => OutProduction(a).n < OutProduction(b).n
    \/ \A a, b \in rows : a < b => OutProduction(a).n > OutProduction(b).n

\* the column of the moving average of window w
AvgName(w) == IF w = 3 THEN "3_month_avg" ELSE "6_month_avg"

\* C15: for w = 3 and w = 6 the moving average is null on the first w-1
\* rows; from row w on it is the mean of the w productions ending at the
\* row (null while one of them is null); over a strictly monotonic window it
\* lies strictly between the smallest and the largest production of the
\* window.
C15_MovingAverages ==
    AnalysedOk =>
        \A w \in {3, 6} : \A i \in 1..Len(OutRows) :
            LET avg == OutCell(i, AvgName(w))
            IN  IF i < w \/ \E m \in Window(i, w) : IsNull(OutProduction(m))
                THEN IsNull(avg)
                ELSE /\ avg.k = "num" /\ avg.d > 0
                     /\ w * avg.n
                            = avg.d * SeqSum([m \in 1..w |-> OutProduction(i - w + m).n])
                     /\ StrictlyMonotonic(Window(i, w)) =>
                            /\ \E m \in Window(i, w) : NumLess(OutProduction(m), avg)
                            /\ \E m \in Window(i, w) : NumLess(avg, OutProduction(m))

\* seven rising rows: the 6-row average of the last row is the mean of
\* rows 2..7
C15_Witness ==
    /\ AnalysedOk
    /\ Len(OutRows) = 7
    /\ IsNull(OutCell(5, "6_month_avg"))
    /\ OutCell(7, "6_month_avg") = Frac(2 + 4 + 7 + 11 + 16 + 22, 6)
    /\ OutCell(3, "3_month_avg") = Frac(1 + 2 + 4, 3)
    /\ StrictlyMonotonic(Window(7, 6))

\* C16: with at least 2 rows the direction is 'increasing' exactly when the
\* slope is > 0 and 'decreasing' otherwise, and strength = |r| lies in
\* [0, 1]; with a single row the analysis succeeds with slope 0, r 0,
\* direction 'unknown', strength 0.
C16_TrendDescriptor ==
    AnalysedOk =>
        LET trend == analysis.last.trend
        IN  IF Len(OutRows) >= 2
            THEN /\ trend.direction \in {"increasing", "decreasing"}
                 /\ trend.direction = "increasing"
                        <=> (trend.slope.k = "num" /\ trend.slope.n > 0)
                 /\ trend.r_squared.k = "num"
                 /\ ~NumLess(trend.r_squared, Num(0))
                 /\ ~NumLess(Num(1), trend.r_squared)
            ELSE /\ trend.direction = "unknown"
                 /\ trend.slope = Num(0)
                 /\ trend.r_sign = 0 /\ trend.r_squared = Num(0)

Supplied ==
    IF response.surface = "app"
    THEN {t \in IdentifierTypes :
             \/ t = "Lease Number" /\ form.lease_num_input # ""
             \/ t = "Drilling Permit Number" /\ form.drilling_permit_input # ""}
    ELSE IF "identifier_value" \in request.fields /\ request.identifier_value # ""
    THEN {request.identifier_type}
    ELSE {}

\* the rest of the submission is valid
OtherwiseValid ==
    IF response.surface = "app"
    THEN form.beg_period_input # "" /\ form.end_period_input # ""
    ELSE request.fields = AllFields /\ request.identifier_type \in IdentifierTypes

\* C18: at the request boundary (the form of app.py, POST
\* /api/retrieve_data) a submission with both identifiers or with neither
\* is a validation error for which access_lease_drop is never called; with
\* exactly one identifier the call is made with the type of the supplied
\* field and its value.
C18_ExactlyOneIdentifier ==
    (pc = "responded" /\ response.surface \in {"app", "rest_api"}) =>
        IF Cardinality(Supplied) # 1
        THEN fetch_calls = <<>> /\ response.status = "error"
        ELSE OtherwiseValid =>
                 /\ Len(fetch_calls) = 1
                 /\ fetch_calls[1].identifier_type \in Supplied
                 /\ fetch_calls[1].identifier_value # ""

\* C19: when access_lease_drop returns HTML without an error and
\* process_lease_data returns no error, the wrapper command retrieve_data
\* and ignition_integration.retrieve_lease_data save the query with its
\* dataset and return status 'success' with data, stats, production_col,
\* date_col and pct_change.
C19_WrapperRetrievesAndSaves ==
    (/\ pc = "responded"
     /\ response.surface \in {"wrapper", "ignition"}
     /\ fetch_calls # <<>>
     /\ fetch_error = None
     /\ ~Truthy(process_lease_data(html_content).error_message)) =>
        /\ response.status = "success"
        /\ {"data", "stats", "production_col", "date_col", "pct_change"} \subseteq response.keys
        /\ Len(db.lease_queries) = 1
        /\ Len(db.lease_data) = 1

NoNameRule == \A j \in 1..Len(FirstTable.columns) : RuleOf(FirstTable, FirstTable.columns[j]) >= 4

\* the columns that, coerced to numeric, have a non-zero sum and a non-null
\* count greater than half the row count
NonZeroSumColumns(df) ==
    {j \in 1..Len(df.columns) :
        LET numeric_col == to_numeric(Column(df, df.columns[j]))
        IN  Sum(numeric_col) # 0 /\ 2 * Count(numeric_col) > Len(df.data)}

\* C21: when no name rule matches, the selected column is the first column
\* that, coerced to numeric, has a non-zero sum (a negative one included) and
\* a non-null count greater than half the row count; no column is selected
\* when no column satisfies both conditions.
C21_LastResortNonZeroSum ==
    (Processed /\ HasTables /\ NoNameRule) =>
        result.selected_col = FirstColumn(FirstTable, NonZeroSumColumns(FirstTable))

\* the raw text of the period of row i of the returned first table
PeriodText(i) == PyStr(PeriodAt(i))

\* C22: when the percentage change is computed the returned rows are in
\* string (lexicographic) order of the raw period value, whether the period
\* column is explicit or synthesized; the first and the last positive row
\* are those with the lexicographically smallest and largest period.
C22_SortedByPeriodText ==
    (Processed /\ result.error_message = None) =>
        /\ \A a, b \in 1..Len(ReturnedTable.data) :
               a < b => ~StrLess(PeriodText(b), PeriodText(a))
        /\ \A i \in PositiveIndexes :
               /\ ~StrLess(PeriodText(i), PeriodText(FirstOf(PositiveIndexes)))
               /\ ~StrLess(PeriodText(LastOf(PositiveIndexes)), PeriodText(i))

\* the beginnings of the messages access_lease_drop returns
FetchPrefixes ==
    {"Cookies are required and could not be enabled.",
     "Error: Could not find form elements.",
     "An error occurred during form interaction: ",
     "Navigation failed, ended up on 'Cookies are required' page.",
     "Failed to reach Lease Drop - Crude Oil page",
     "General error during access attempt: "}

\* what happened in the execution: the fetch failed (by an error returned or
\* by an exception), the page held no table, or the first table held no
\* recognisable production column
OutcomeClass ==
    IF fetch_error # None THEN "fetch_failure"
    ELSE IF html_content.kind = "no_tables" THEN "no_results"
    ELSE IF html_content.kind = "tables" /\ ~Truthy(find_production_col(FirstTable))
    THEN "column_not_identified"
    ELSE "other"

\* the class a reader takes from the response alone; the bare 500 of the
\* server is the answer to an exception of the fetcher
ResponseClass(body) ==
    IF body = InternalServerError THEN "fetch_failure"
    ELSE IF body.status # "error" \/ body.message.k # "str" THEN "other"
    ELSE IF \E prefix \in FetchPrefixes : StartsWith(body.message.s, prefix)
    THEN "fetch_failure"
    ELSE IF StartsWith(body.message.s, "No tables found") THEN "no_results"
    ELSE IF body.message.s = MsgNoProductionColumn THEN "column_not_identified"
    ELSE "other"

\* C23: the response of POST /api/retrieve_data to a valid request tells the
\* three classes apart: no results (no tables), results present but no
\* production column identified, and fetch failure; the class read from the
\* response alone is the class of the execution, so no two executions of
\* different classes give the same response.
C23_OutcomeClassesDistinguished ==
    (Responded /\ response.surface = "rest_api" /\ fetch_calls # <<>>) =>
        /\ ResponseClass(response) = OutcomeClass
        /\ OutcomeClass # "other" =>
               \/ response.status = "error" /\ response.code = 400
               \/ FetchRaised /\ response.code = 500

\* a page with a table whose columns match no rule
C23_Witness ==
    /\ Responded /\ response.surface = "rest_api"
    /\ OutcomeClass = "column_not_identified"
    /\ response.message = Str(MsgNoProductionColumn)
    /\ Len(FirstTable.data) >= 1

\* the rows of a table that were there before the call
KeptRows(table, call) ==
    SubSeq(db[table], 1, Len(call.before[table])) = call.before[table]

\* the rows of a table written by the call
NewRows(table, call) ==
    SubSeq(db[table], Len(call.before[table]) + 1, Len(db[table]))

\* C24: a call of save_to_database in which an insert, a serialisation or
\* the commit fails returns False and leaves the database as it was before
\* the call; any other call returns True and adds the query row together
\* with the dataset and statistics rows of its arguments, each of them
\* referencing the query row inserted by the same call.
C24_SaveAllOrNothing ==
    \A i \in 1..Len(save_calls) :
        LET call == save_calls[i]
            query_id == Len(call.before.lease_queries) + 1
        IN  IF ~call.returned
            THEN db = call.before
            ELSE /\ \A table \in {"lease_queries", "lease_data", "lease_statistics"} :
                        KeptRows(table, call)
                 /\ Len(NewRows("lease_queries", call)) = 1
                 /\ NewRows("lease_queries", call)[1].status = call.status
                 /\ Len(NewRows("lease_data", call)) = (IF call.dataset THEN 1 ELSE 0)
                 /\ Len(NewRows("lease_statistics", call)) = (IF call.statistics THEN 1 ELSE 0)
                 /\ \A table \in {"lease_data", "lease_statistics"} :
                        \A k \in 1..Len(NewRows(table, call)) :
                            NewRows(table, call)[k].query_id = query_id

\* the statistics insert fails after the query and the dataset were
\* inserted: the call returns False and the earlier query is all there is
C24_Witness ==
    /\ Responded /\ response.surface = "rest_api"
    /\ fault = "lease_statistics"
    /\ Len(save_calls) = 1
    /\ save_calls[1].dataset /\ save_calls[1].statistics
    /\ ~save_calls[1].returned
    /\ db = PriorDb

\* the request fails the validation of POST /api/retrieve_data
FailsValidation ==
    MissingFields(request) # {} \/ request.identifier_type \notin IdentifierTypes

\* C28: a POST /api/retrieve_data request that lacks a required field or
\* whose identifier_type is not one of the two names is answered with
\* status 400, and nothing else happens: access_lease_drop is not called, no
\* database connection is opened and no row is written.
C28_InvalidRequestLeavesNoTrace ==
    (Responded /\ response.surface = "rest_api" /\ FailsValidation) =>
        /\ response.code = 400
        /\ fetch_calls = <<>>
        /\ connections = 0
        /\ save_calls = <<>>
        /\ db = EmptyDb

\* the status of the query a dataset or statistics row refers to
StatusOf(row) == db.lease_queries[row.query_id].status

\* C29: a POST /api/retrieve_data request that passes validation calls
\* access_lease_drop exactly once and save_to_database exactly once, with
\* query status 'error' and neither dataset nor statistics, or with status
\* 'success' and both; no persisted query has the status 'started', and
\* every dataset or statistics row belongs to a query with status 'success'.
C29_OneFetchOneSave ==
    (Responded /\ response.surface = "rest_api" /\ ~FailsValidation) =>
        /\ Len(fetch_calls) = 1
        /\ Len(save_calls) = 1
        /\ \A i \in 1..Len(save_calls) :
               \/ /\ save_calls[i].status = "error"
                  /\ ~save_calls[i].dataset /\ ~save_calls[i].statistics
               \/ /\ save_calls[i].status = "success"
                  /\ save_calls[i].dataset /\ save_calls[i].statistics
        /\ \A i \in 1..Len(db.lease_queries) : db.lease_queries[i].status # "started"
        /\ \A i \in 1..Len(db.lease_data) : StatusOf(db.lease_data[i]) = "success"
        /\ \A i \in 1..Len(db.lease_statistics) : StatusOf(db.lease_statistics[i]) = "success"

\* C30: whenever one of the four rules selects a column of the first table,
\* process_lease_data returns that column as the production column together
\* with the statistics of it, and the error 'Could not identify crude oil
\* production column' is returned only when no rule selected a column, a
\* selected column named 0 or "" included.
C30_SelectedColumnReported ==
    (Processed /\ HasTables) =>
        /\ result.selected_col # None =>
               /\ result.production_col = result.selected_col
               /\ result.stats_df.k = "stats"
        /\ ErrorIs(MsgNoProductionColumn) => result.selected_col = None

-----------------------------------------------------------------------------
(* Properties of the browser session                                       *)

\* the positions of an event in the log of the session
Positions(event) == {i \in 1..Len(session.events) : session.events[i] = event}

Happened(event) == Positions(event) # {}

\* control is back in the caller, by a return or by an exception
BackInCaller == session.step \in {"returned", "raised"}

\* C25: whenever access_lease_drop returns or raises after the driver was
\* created, a failure while the driver is configured included, the driver
\* has been quit before control is back in the caller, exactly once.
C25_DriverQuitOnEveryPath ==
    (BackInCaller /\ Happened("Chrome")) =>
        /\ session.driver = "quit"
        /\ Cardinality(Positions("quit")) = 1

\* what belongs to the Lease Drop page and its form
LeaseDropEvents ==
    {"click link", "get reportLeaseDropCOForward.do", "click submit"}
        \cup {"locate " \o FormElements[i] : i \in 1..4}
        \cup {"missing " \o FormElements[i] : i \in 1..4}
        \cup {"fill " \o FormElements[i] : i \in 1..3}

\* C26: the cookie recovery makes at most three attempts, no attempt
\* follows an attempt after which the warning is gone, and when the warning
\* is still shown after the third attempt the function returns (None,
\* 'Cookies are required and could not be enabled...') and the session never
\* opens the Lease Drop page nor touches the form.
C26_RecoveryBoundedAndFinal ==
    /\ Cardinality(Positions("attempt")) <= 3
    /\ \A i \in Positions("warning gone") : \A j \in Positions("attempt") : j < i
    /\ (session.attempt >= 3 /\ session.warning) =>
           /\ \A i \in 1..Len(session.events) : session.events[i] \notin LeaseDropEvents
           /\ session.step \in {"final_check", "finally", "returned"}
           /\ session.step = "returned" =>
                  access_lease_drop = <<None, Str(MsgCookiesRequired)>>

\* three attempts, the warning still shown, the cookie error returned
C26_Witness ==
    /\ session.step = "returned"
    /\ Cardinality(Positions("attempt")) = 3
    /\ session.warning
    /\ fetch_error = Str(MsgCookiesRequired)
    /\ Happened("quit")

\* C27: the submit button is clicked only after the identifier input, both
\* period inputs and the submit button were located and the three inputs
\* filled; when one of the four is not found the function returns (None,
\* 'Error: Could not find form elements...') and the form is never submitted.
C27_SubmitOnlyAfterFormFilled ==
    /\ \A c \in Positions("click submit") :
           /\ \A e \in 1..4 : \E i \in Positions("locate " \o FormElements[e]) : i < c
           /\ \A e \in 1..3 : \E i \in Positions("fill " \o FormElements[e]) : i < c
    /\ (\E e \in 1..4 : Happened("missing " \o FormElements[e])) =>
           /\ ~Happened("click submit")
           /\ session.step \in {"timeout", "finally", "returned"}
           /\ session.pending[1] = NoDocument
           /\ session.step = "returned" =>
                  access_lease_drop = <<None, Str(MsgFormElements)>>

\* the form filled and submitted, the page that follows returned
C27_Witness ==
    /\ session.step = "returned"
    /\ Happened("click submit")
    /\ fetch_error = None
    /\ html_content.kind = "tables"

====
